---- MODULE Spec2Model ----
(***************************************************************************)
(* Verification model of the zinc compiler middle-end:                     *)
(*   Atlas (atlas.py), SymbolTable / SymbolTableVisitor (symbols.py),      *)
(*   CodeGenVisitor (codegen.py) and the channel naming of Visitor         *)
(*   (visitor.py).                                                         *)
(*                                                                         *)
(* Names are modelled as sequences of character codes, so that name        *)
(* mangling is real string concatenation (two different requests can       *)
(* produce the same text) and so that the sorted iteration order of the    *)
(* SortedDict holding Atlas.functions is the code-point order Python uses. *)
(***************************************************************************)
EXTENDS Integers, Sequences, FiniteSets, TLC

VARIABLES
    \* ---- Atlas (atlas.py) ----
    functions,          \* Atlas.functions: mangled name -> FunctionInstance
    calls,              \* Atlas.calls: name -> set of callee names
    \* ---- history of add_specialization requests (SpecAtlas) ----
    requested,          \* set of <<name, arg_types>> pairs passed so far
    first_ret,          \* pair -> mangled name returned by its first call
    last_ret,           \* the value the latest call returned
    last_repeat,        \* TRUE iff the latest call repeated an earlier pair
    \* ---- compilation pipeline (Spec) ----
    prog,               \* the parsed program: template name -> definition
    pc,                 \* position of the driver (main.py compile)
    processed,          \* resolve(): the set `processed`
    queue,              \* remaining names of the current for-loop
    specialization_map, \* SymbolTableVisitor.specialization_map
    emitted,            \* RustProgram.functions + main: emitted definitions
    uses_async,         \* CodeGenVisitor._uses_async
    imports,            \* the imports list generate() puts in the RustProgram
    \* ---- bindings of one variable in main's body (SpecAssign) ----
    abody,              \* the statements of main's body
    apc,                \* position of the driver: [phase, i]
    symtab,             \* the SymbolTable object
    declared_vars,      \* CodeGenVisitor._declared_vars
    rust,               \* the statement forms the emitter produced, in order
    \* ---- channel naming (SpecChan) ----
    cpipe,              \* which pipeline compiles the program
    cprog,              \* the channel statements of the program
    cpc,                \* position of the driver: [phase, pass, i]
    _channel_usages,    \* Visitor._channel_usages
    _channel_name_map,  \* Visitor._channel_name_map
    _pending_channel_decls, \* Visitor._pending_channel_decls
    _channel_infos,     \* SymbolTableVisitor._channel_infos (its key set)
    channel_decls,      \* the ChannelDeclaration statements produced
    send_sites,         \* the name written before .send at each send site
    recv_sites,         \* the name written before .recv at each receive site
    \* ---- channel element types in the resolver (SpecInfer) ----
    chan_objects,       \* the ChannelTypeInfo objects created, by identity
    chan_of,            \* SymbolTableVisitor._channel_infos: name -> object
    send_conflict,      \* history: a send met a channel fixed to another type
    \* ---- the Visitor pipeline up to monomorphize (SpecMono) ----
    mprog,              \* the program: main's statements and p's sends
    mpc,                \* position of the driver: [phase, i]
    _channel_vars,      \* Visitor._channel_vars
    _call_sites,        \* Visitor._call_sites
    _function_templates,\* Visitor._function_templates
    main_body,          \* the Statement objects of main's body
    _monomorphized,     \* Visitor._monomorphized
    _pending_assignments, \* Visitor._pending_assignments
    _array_push_vars,   \* Visitor._array_push_vars
    statements,         \* Visitor.statements
    \* ---- two compilations of one parse tree (SpecTwice) ----
    run,                \* which compilation is running: 1 or 2 (0: not used)
    step,               \* the number of pipeline steps the compilation took
    trace               \* the states the first compilation passed through

atlasVars == <<functions, calls>>
histVars  == <<requested, first_ret, last_ret, last_repeat>>
pipeVars  == <<prog, pc, processed, queue, specialization_map, emitted, uses_async,
               imports>>
assignVars == <<abody, apc, symtab, declared_vars, rust>>
chanVars  == <<cpipe, cprog, cpc, _channel_usages, _channel_name_map,
               _pending_channel_decls, _channel_infos, channel_decls,
               send_sites, recv_sites>>
inferVars == <<chan_objects, chan_of, send_conflict>>
runVars   == <<run, step, trace>>
monoVars  == <<mprog, mpc, _channel_vars, _call_sites, _function_templates, main_body,
               _monomorphized, _pending_assignments, _array_push_vars, statements>>
vars == <<functions, calls, requested, first_ret, last_ret, last_repeat,
          prog, pc, processed, queue, specialization_map, emitted, uses_async,
          imports,
          abody, apc, symtab, declared_vars, rust,
          cpipe, cprog, cpc, _channel_usages, _channel_name_map,
          _pending_channel_decls, _channel_infos, channel_decls,
          send_sites, recv_sites, chan_objects, chan_of, send_conflict,
          mprog, mpc, _channel_vars, _call_sites, _function_templates, main_body,
          _monomorphized, _pending_assignments, _array_push_vars, statements,
          run, step, trace>>

----------------------------------------------------------------------------
(* Character strings *)

Str_main    == <<109, 97, 105, 110>>
Str_add     == <<97, 100, 100>>
Str_add_i64 == <<97, 100, 100, 95, 105, 54, 52>>
Str_f       == <<102>>
Str_g       == <<103>>
Str_used    == <<117, 115, 101, 100>>
Str_print   == <<112, 114, 105, 110, 116>>
Str_chan    == <<99, 104, 97, 110>>
Underscore  == <<95>>
None        == <<>>

Range(s) == {s[i] : i \in DOMAIN s}

\* Python's str ordering: lexicographic by code point, a proper prefix first.
RECURSIVE StrLess(_, _)
StrLess(a, b) ==
    IF Len(b) = 0 THEN FALSE
    ELSE IF Len(a) = 0 THEN TRUE
    ELSE IF a[1] # b[1] THEN a[1] < b[1]
    ELSE StrLess(Tail(a), Tail(b))

\* The keys of a SortedDict / members of a SortedSet in iteration order.
RECURSIVE SortedSeq(_)
SortedSeq(S) ==
    IF S = {} THEN <<>>
    ELSE CHOOSE r \in {<<m>> \o SortedSeq(T) :
                          m \in {x \in S : \A y \in S \ {x} : StrLess(x, y)},
                          T \in {S \ {x} : x \in {z \in S : \A y \in S \ {z} : StrLess(z, y)}}} : TRUE

----------------------------------------------------------------------------
(* zinc/ast/types.py *)

BaseType == {"INTEGER", "STRING", "BOOLEAN", "FLOAT", "CHANNEL", "ARRAY", "UNKNOWN"}

\* mapping.get(base_type, "unknown")
type_to_rust(t) ==
    CASE t = "INTEGER" -> <<105, 54, 52>>
      [] t = "FLOAT"   -> <<102, 54, 52>>
      [] t = "STRING"  -> <<83, 116, 114, 105, 110, 103>>
      [] t = "BOOLEAN" -> <<98, 111, 111, 108>>
      [] t = "CHANNEL" -> <<99, 104, 97, 110>>
      [] t = "ARRAY"   -> <<86, 101, 99>>
      [] OTHER         -> <<117, 110, 107, 110, 111, 119, 110>>

----------------------------------------------------------------------------
(* zinc/atlas.py *)

\* "_".join(type_to_rust(t) for t in arg_types), arg_types non-empty
RECURSIVE JoinRust(_)
JoinRust(ts) ==
    IF Len(ts) = 1 THEN type_to_rust(ts[1])
    ELSE type_to_rust(ts[1]) \o Underscore \o JoinRust(Tail(ts))

_mangle_name(name, arg_types) ==
    IF arg_types = <<>> THEN name
    ELSE name \o Underscore \o JoinRust(arg_types)

\* FunctionInstance(name, mangled_name, ctx, arg_types) with the dataclass defaults
FunctionInstance(name, mangled, ctx, arg_types) ==
    [name |-> name, mangled_name |-> mangled, ctx |-> ctx, arg_types |-> arg_types,
     return_type |-> "VOID", is_async |-> FALSE, arg_channel_infos |-> <<>>]

\* add_specialization without the membership test of atlas.py line 141:
\* the instance and its edge set are rebuilt on every call.
add_specialization_rebuild(at, name, arg_types, ctx, caller_mangled) ==
    LET mangled == _mangle_name(name, arg_types)
        fs1 == [m \in DOMAIN at.functions \cup {mangled} |->
                   IF m = mangled
                   THEN FunctionInstance(name, mangled, ctx, arg_types)
                   ELSE at.functions[m]]
        cs1 == [m \in DOMAIN at.calls \cup {mangled} |->
                   IF m = mangled THEN {} ELSE at.calls[m]]
        cs2 == IF caller_mangled # None /\ caller_mangled \in DOMAIN cs1
               THEN [cs1 EXCEPT ![caller_mangled] = @ \cup {mangled}]
               ELSE cs1
    IN  [functions |-> fs1, calls |-> cs2, ret |-> mangled]

\* add_specialization that records the caller's edge only when it creates
\* the instance
add_specialization_edge_when_new(at, name, arg_types, ctx, caller_mangled) ==
    LET mangled == _mangle_name(name, arg_types)
        fresh   == mangled \notin DOMAIN at.functions
        fs1 == IF fresh
               THEN [m \in DOMAIN at.functions \cup {mangled} |->
                        IF m = mangled
                        THEN FunctionInstance(name, mangled, ctx, arg_types)
                        ELSE at.functions[m]]
               ELSE at.functions
        cs1 == IF fresh
               THEN [m \in DOMAIN at.calls \cup {mangled} |->
                        IF m = mangled THEN {} ELSE at.calls[m]]
               ELSE at.calls
        cs2 == IF fresh /\ caller_mangled # None /\ caller_mangled \in DOMAIN cs1
               THEN [cs1 EXCEPT ![caller_mangled] = @ \cup {mangled}]
               ELSE cs1
    IN  [functions |-> fs1, calls |-> cs2, ret |-> mangled]

\* Atlas.add_specialization: the Atlas [functions, calls] after the call and
\* the mangled name it returns.
\* ctx is the template whose definition the caller passed.
add_specialization(at, name, arg_types, ctx, caller_mangled) ==
    LET mangled == _mangle_name(name, arg_types)
        fresh   == mangled \notin DOMAIN at.functions
        fs1 == IF fresh
               THEN [m \in DOMAIN at.functions \cup {mangled} |->
                        IF m = mangled
                        THEN FunctionInstance(name, mangled, ctx, arg_types)
                        ELSE at.functions[m]]
               ELSE at.functions
        cs1 == IF fresh
               THEN [m \in DOMAIN at.calls \cup {mangled} |->
                        IF m = mangled THEN {} ELSE at.calls[m]]
               ELSE at.calls
        cs2 == IF caller_mangled # None /\ caller_mangled \in DOMAIN cs1
               THEN [cs1 EXCEPT ![caller_mangled] = @ \cup {mangled}]
               ELSE cs1
    IN  [functions |-> fs1, calls |-> cs2, ret |-> mangled]

\* AtlasBuilder.build(): the main instance, the only one build() creates
MainInstance == FunctionInstance(Str_main, Str_main, Str_main, <<>>)

----------------------------------------------------------------------------
(* zinc/symbols.py: SymbolTable.  A Symbol object is referred to by its      *)
(* position in _symbols (0 stands for no symbol), so that a flag set through *)
(* one reference is seen through every other.  The key _interval_key builds, *)
(* "scope:(start, stop)", is the pair <<scope, interval>>.                   *)

Str_x  == <<120>>
PyNone == <<-1>>

NewSymbolTable ==
    [symbols |-> <<>>, by_interval |-> <<>>, scope_stack |-> << <<>> >>,
     temp_counter |-> 0, scope_path |-> <<>>, function_scope |-> <<>>]

\* a key that leaves the function scope out
_interval_key_unscoped(st, interval) == <<<<>>, interval>>

_interval_key(st, interval) == <<st.function_scope, interval>>

enter_scope(st, name) ==
    [st EXCEPT !.scope_path = Append(@, name),
               !.scope_stack = Append(@, <<>>),
               !.function_scope = IF Len(st.scope_path) + 1 = 1 THEN name ELSE @]

exit_scope(st) ==
    [st EXCEPT !.scope_path = SubSeq(@, 1, Len(@) - 1),
               !.scope_stack = SubSeq(@, 1, Len(@) - 1),
               !.function_scope = IF Len(st.scope_path) - 1 = 0 THEN <<>> ELSE @]

\* SymbolTable.define; the new symbol is the last of the result's symbols
define(st, id, kind, resolved_type, interval, is_shadow) ==
    LET symbol == [id |-> id,
                   unique_name |-> <<st.scope_path, id, type_to_rust(resolved_type)>>,
                   kind |-> kind, resolved_type |-> resolved_type,
                   source_interval |-> interval, is_mutated |-> FALSE,
                   is_shadow |-> is_shadow, element_type |-> "None"]
        n == Len(st.symbols) + 1
    IN  [st EXCEPT !.symbols = Append(@, symbol),
                   !.by_interval = (_interval_key(st, interval) :> n) @@ @,
                   !.scope_stack[Len(st.scope_stack)] = (id :> n) @@ @]

\* SymbolTable.define_temp
define_temp(st, resolved_type, interval, kind) ==
    LET symbol == [id |-> None, unique_name |-> <<"tmp", st.temp_counter>>,
                   kind |-> kind, resolved_type |-> resolved_type,
                   source_interval |-> interval, is_mutated |-> FALSE,
                   is_shadow |-> FALSE, element_type |-> "None"]
        n == Len(st.symbols) + 1
    IN  [st EXCEPT !.symbols = Append(@, symbol),
                   !.temp_counter = @ + 1,
                   !.by_interval = (_interval_key(st, interval) :> n) @@ @]

\* lookup_by_id: the scopes from the innermost (k = top of stack) outwards
RECURSIVE lookup_from(_, _, _)
lookup_from(st, id, k) ==
    IF k = 0 THEN 0
    ELSE IF id \in DOMAIN st.scope_stack[k] THEN st.scope_stack[k][id]
    ELSE lookup_from(st, id, k - 1)

lookup_by_id(st, id) == lookup_from(st, id, Len(st.scope_stack))

lookup_by_interval(st, interval, function_scope) ==
    LET scope == IF function_scope # PyNone THEN function_scope ELSE st.function_scope
        key   == <<scope, interval>>
    IN  IF key \in DOMAIN st.by_interval THEN st.by_interval[key] ELSE 0

\* _register_builtins
_register_builtins(st) ==
    define(define(st, Str_print, "BUILTIN", "VOID", <<-1, -1>>, FALSE),
           Str_chan, "BUILTIN", "CHANNEL", <<-1, -1>>, FALSE)

----------------------------------------------------------------------------
(* SpecAtlas: an Atlas as build() returns it for a program whose main has   *)
(* an empty body, driven by the Atlas-visible effects of the resolver:      *)
(* add_specialization from a call site, add_specialization + is_async from  *)
(* a spawn site, and the return type _resolve_function stores.              *)

MaxRequests == 3

AtlasNames     == {Str_add, Str_add_i64}
AtlasArgTuples == {<<>>, <<"INTEGER">>, <<"FLOAT">>, <<"INTEGER", "INTEGER">>, <<"UNKNOWN">>}
AtlasCallers   == {Str_main}

HistIdle ==
    /\ requested = {}
    /\ first_ret = <<>>
    /\ last_ret = None
    /\ last_repeat = FALSE

AssignIdle ==
    /\ abody = <<>>
    /\ apc = [phase |-> "idle", pass |-> 0, i |-> 0]
    /\ symtab = NewSymbolTable
    /\ declared_vars = {}
    /\ rust = <<>>

RunIdle ==
    /\ run = 0
    /\ step = 0
    /\ trace = <<>>

MonoIdle ==
    /\ mprog = <<>>
    /\ mpc = [phase |-> "idle", i |-> 0]
    /\ _channel_vars = <<>>
    /\ _call_sites = <<>>
    /\ _function_templates = <<>>
    /\ main_body = <<>>
    /\ _monomorphized = <<>>
    /\ _pending_assignments = <<>>
    /\ _array_push_vars = {}
    /\ statements = <<>>

InferIdle ==
    /\ chan_objects = <<>>
    /\ chan_of = <<>>
    /\ send_conflict = FALSE

ChanIdle ==
    /\ cpipe = "none"
    /\ cprog = <<>>
    /\ cpc = [phase |-> "idle", pass |-> 0, i |-> 0]
    /\ _channel_usages = <<>>
    /\ _channel_name_map = <<>>
    /\ _pending_channel_decls = <<>>
    /\ _channel_infos = {}
    /\ channel_decls = <<>>
    /\ send_sites = {}
    /\ recv_sites = {}

PipeIdle ==
    /\ prog = <<>>
    /\ pc = "atlas"
    /\ processed = {}
    /\ queue = <<>>
    /\ specialization_map = <<>>
    /\ emitted = <<>>
    /\ uses_async = FALSE
    /\ imports = <<>>

InitAtlas ==
    /\ functions = (Str_main :> MainInstance)
    /\ calls = (Str_main :> {})
    /\ requested = {}
    /\ first_ret = <<>>
    /\ last_ret = None
    /\ last_repeat = FALSE
    /\ PipeIdle
    /\ AssignIdle
    /\ ChanIdle
    /\ InferIdle
    /\ MonoIdle
    /\ RunIdle

Record(name, arg_types, m) ==
    LET pair == <<name, arg_types>>
    IN  /\ Cardinality(requested \cup {pair}) <= MaxRequests
        /\ requested' = requested \cup {pair}
        /\ first_ret' = IF pair \in DOMAIN first_ret THEN first_ret
                        ELSE [p \in DOMAIN first_ret \cup {pair} |->
                                 IF p = pair THEN m ELSE first_ret[p]]
        /\ last_ret' = m
        /\ last_repeat' = (pair \in requested)

\* symbols.py 869-873: a call site whose argument types are all known asks
\* for its specialization (a call with no arguments asks for none)
AtlasAdd(name, arg_types, caller) ==
    LET at == add_specialization([functions |-> functions, calls |-> calls],
                                 name, arg_types, name, caller)
    IN  /\ arg_types # <<>>
        /\ "UNKNOWN" \notin Range(arg_types)
        /\ functions' = at.functions
        /\ calls' = at.calls
        /\ Record(name, arg_types, at.ret)
        /\ UNCHANGED <<pipeVars, assignVars, chanVars, inferVars, monoVars, runVars>>

\* symbols.py 1076-1085: a spawn site asks for its specialization and marks it
AtlasSpawn(name, arg_types, caller) ==
    LET at == add_specialization([functions |-> functions, calls |-> calls],
                                 name, arg_types, name, caller)
        m  == at.ret
    IN  /\ arg_types # <<>>
        /\ functions' = [at.functions EXCEPT ![m].is_async = TRUE,
                                             ![m].arg_channel_infos = <<>>]
        /\ calls' = at.calls
        /\ Record(name, arg_types, at.ret)
        /\ UNCHANGED <<pipeVars, assignVars, chanVars, inferVars, monoVars, runVars>>

\* symbols.py 637: func.return_type = self._current_return_type
AtlasStoreReturn(m, t) ==
    /\ m \in DOMAIN functions
    /\ m # Str_main
    /\ functions[m].return_type # t
    /\ functions' = [functions EXCEPT ![m].return_type = t]
    /\ UNCHANGED <<calls, requested, first_ret, last_ret, last_repeat>>
    /\ UNCHANGED <<pipeVars, assignVars, chanVars, inferVars, monoVars, runVars>>

NextAtlas ==
    \/ \E n \in AtlasNames, a \in AtlasArgTuples, c \in AtlasCallers : AtlasAdd(n, a, c)
    \/ \E n \in AtlasNames, a \in AtlasArgTuples, c \in AtlasCallers : AtlasSpawn(n, a, c)
    \/ \E m \in DOMAIN functions : AtlasStoreReturn(m, "INTEGER")

SpecAtlas == InitAtlas /\ [][NextAtlas]_vars

----------------------------------------------------------------------------
(* The compilation pipeline of main.py compile():                           *)
(*   AtlasBuilder.build -> SymbolTableVisitor.resolve -> CodeGenVisitor.generate *)
(* A program declares main(), f(a), g(a) and used(); a body is a sequence   *)
(* of call and spawn statements.  A call site is identified by its source   *)
(* interval, modelled as <<declaring function, statement index>>.           *)

MaxMainStmts == 2

Kinds == {"call", "spawn"}
Lits  == {"INTEGER", "FLOAT"}

Stmt(k, callee, args) == [k |-> k, callee |-> callee, args |-> args]

\* statements main may contain: arguments are literals
MainStmts ==
    {Stmt(k, c, <<t>>) : k \in Kinds, c \in {Str_f, Str_g}, t \in Lits}
        \cup {Stmt(k, Str_used, <<>>) : k \in Kinds}

\* statements f(a) may contain: "PARAM" is a reference to its parameter a
FStmts ==
    {Stmt(k, Str_g, <<a>>) : k \in Kinds, a \in {"PARAM", "INTEGER"}}
        \cup {Stmt(k, Str_used, <<>>) : k \in Kinds}

GStmts == {Stmt(k, Str_used, <<>>) : k \in Kinds}

UsedStmts == {Stmt(k, Str_f, <<"INTEGER">>) : k \in Kinds}

BodiesUpTo(S, n) == UNION {[1..k -> S] : k \in 0..n}

Programs ==
    {(Str_main :> [np |-> 0, body |-> bm]) @@ (Str_f :> [np |-> 1, body |-> bf])
       @@ (Str_g :> [np |-> 1, body |-> bg]) @@ (Str_used :> [np |-> 0, body |-> bu]) :
        bm \in BodiesUpTo(MainStmts, MaxMainStmts), bf \in BodiesUpTo(FStmts, 1),
        bg \in BodiesUpTo(GStmts, 1), bu \in BodiesUpTo(UsedStmts, 1)}

Builtins == {Str_print, Str_chan}

\* _walk_for_references: the names a body calls or spawns, built-ins skipped
BodyRefs(p, name) ==
    {p[name].body[i].callee : i \in DOMAIN p[name].body} \ Builtins

\* build(): the worklist's visited set, from `seen` with `todo` still to walk
RECURSIVE Worklist(_, _, _)
Worklist(p, seen, todo) ==
    IF todo = {} THEN seen
    ELSE LET n    == CHOOSE x \in todo : TRUE
             more == {c \in BodyRefs(p, n) : c \in DOMAIN p /\ c \notin seen}
         IN  Worklist(p, seen \cup more, (todo \ {n}) \cup more)

\* the worklist entry taken next: build() pops the last one
Picks == {"last", "first"}
Taken(worklist, pick) ==
    IF pick = "last" THEN worklist[Len(worklist)] ELSE Head(worklist)
Left(worklist, pick) ==
    IF pick = "last" THEN SubSeq(worklist, 1, Len(worklist) - 1) ELSE Tail(worklist)

\* the loop of build() without `if func_name in visited: continue`
RECURSIVE build_walk_rewalking(_, _, _, _, _, _)
build_walk_rewalking(p, worklist, visited, cs, walks, pick) ==
    IF worklist = <<>> THEN [calls |-> cs, walks |-> walks]
    ELSE LET func_name == Taken(worklist, pick)
             rest      == Left(worklist, pick)
             seen      == visited \cup {func_name}
         IN  IF func_name \notin DOMAIN p
             THEN build_walk_rewalking(p, rest, seen, cs, walks, pick)
             ELSE build_walk_rewalking(p,
                      rest \o SortedSeq({c \in BodyRefs(p, func_name) :
                                            c \notin seen /\ c \in DOMAIN p}),
                      seen,
                      [n \in DOMAIN cs \cup {func_name} |->
                          IF n = func_name THEN BodyRefs(p, func_name) ELSE cs[n]],
                      [walks EXCEPT ![func_name] = @ + 1], pick)

\* build(): the while-loop over the worklist, entry by entry; cs is
\* self._calls, walks counts the calls of _walk_for_references per function
RECURSIVE build_walk(_, _, _, _, _, _)
build_walk(p, worklist, visited, cs, walks, pick) ==
    IF worklist = <<>> THEN [calls |-> cs, walks |-> walks]
    ELSE LET func_name == Taken(worklist, pick)
             rest      == Left(worklist, pick)
             seen      == visited \cup {func_name}
         IN  IF func_name \in visited
             THEN build_walk(p, rest, visited, cs, walks, pick)
             ELSE IF func_name \notin DOMAIN p
             THEN build_walk(p, rest, seen, cs, walks, pick)
             ELSE build_walk(p,
                      rest \o SortedSeq({c \in BodyRefs(p, func_name) :
                                            c \notin seen /\ c \in DOMAIN p}),
                      seen,
                      [n \in DOMAIN cs \cup {func_name} |->
                          IF n = func_name THEN BodyRefs(p, func_name) ELSE cs[n]],
                      [walks EXCEPT ![func_name] = @ + 1], pick)

\* topological_order(): dfs(name) and the loops that call it; st carries the
\* closure variables visited and result
RECURSIVE dfs(_, _, _, _)
RECURSIVE dfs_each(_, _, _, _)
dfs(fs, cs, st, name) ==
    IF name \in st.visited \/ name \notin DOMAIN fs THEN st
    ELSE LET st1  == [st EXCEPT !.visited = @ \cup {name}]
             outs == IF name \in DOMAIN cs THEN cs[name] ELSE {}
             st2  == dfs_each(fs, cs, st1, SortedSeq({c \in outs : c \in DOMAIN fs}))
         IN  [st2 EXCEPT !.result = Append(@, name)]

\* the for-loops: each dfs call starts from the closure variables as the
\* one before it left them
dfs_each(fs, cs, st, names) ==
    IF names = <<>> THEN st
    ELSE CHOOSE r \in {dfs_each(fs, cs, s, Tail(names)) :
                          s \in {dfs(fs, cs, st, Head(names))}} : TRUE

\* the same traversal with the result reversed: callers before callees
topological_order_callers_first(fs, cs) ==
    LET r == dfs_each(fs, cs, [visited |-> {}, result |-> <<>>],
                      SortedSeq(DOMAIN fs)).result
    IN  [i \in DOMAIN r |-> r[Len(r) + 1 - i]]

topological_order(fs, cs) ==
    dfs_each(fs, cs, [visited |-> {}, result |-> <<>>], SortedSeq(DOMAIN fs)).result

Init ==
    /\ prog \in Programs
    /\ pc = "build"
    /\ functions = <<>>
    /\ calls = <<>>
    /\ processed = {}
    /\ queue = <<>>
    /\ specialization_map = <<>>
    /\ emitted = <<>>
    /\ uses_async = FALSE
    /\ imports = <<>>
    /\ HistIdle
    /\ AssignIdle
    /\ ChanIdle
    /\ InferIdle
    /\ MonoIdle
    /\ RunIdle

\* build() without the test of _main_ctx
Build_unchecked ==
    /\ pc = "build"
    /\ functions' = (Str_main :> MainInstance)
    /\ calls' = [n \in Worklist(prog, {Str_main} \cap DOMAIN prog, {Str_main} \cap DOMAIN prog)
                    |-> BodyRefs(prog, n)]
    /\ pc' = "discover"
    /\ queue' = <<Str_main>>
    /\ UNCHANGED <<prog, processed, specialization_map, emitted, uses_async, imports>>
    /\ UNCHANGED <<histVars, assignVars, chanVars, inferVars, monoVars>>

\* AtlasBuilder.build(): main's instance and the call graph over the
\* declarations reachable from main
Build ==
    /\ pc = "build"
    /\ Str_main \in DOMAIN prog
    /\ functions' = (Str_main :> MainInstance)
    /\ calls' = [n \in Worklist(prog, {Str_main}, {Str_main}) |-> BodyRefs(prog, n)]
    /\ pc' = "discover"
    /\ queue' = <<Str_main>>
    /\ UNCHANGED <<prog, processed, specialization_map, emitted, uses_async, imports>>
    /\ UNCHANGED <<histVars, assignVars, chanVars, inferVars, monoVars>>

\* The type the resolver computes for an argument expression inside the
\* instance func: a literal has its own type, a parameter reference has the
\* type _resolve_function gave the parameter (symbols.py 614-618).
ArgType(func, a) ==
    IF a = "PARAM"
    THEN IF 1 <= Len(func.arg_types) THEN func.arg_types[1] ELSE "UNKNOWN"
    ELSE a

ArgTypes(func, args) == [j \in DOMAIN args |-> ArgType(func, args[j])]

\* getSourceInterval() of statement i in the declaration an instance carries
Site(func, i) == <<func.ctx, i>>

\* SymbolTableVisitor.visitFunctionCallExpr, st = [functions, calls, sm]
visitFunctionCallExpr(st, func, i, stmt) ==
    LET arg_types == ArgTypes(func, stmt.args)
    IN  IF /\ stmt.callee \notin Builtins
           /\ stmt.callee \in DOMAIN prog
           /\ arg_types # <<>>
           /\ "UNKNOWN" \notin Range(arg_types)
        THEN LET at == add_specialization([functions |-> st.functions, calls |-> st.calls],
                           stmt.callee, arg_types, stmt.callee, func.mangled_name)
             IN  [functions |-> at.functions, calls |-> at.calls,
                  sm |-> (Site(func, i) :> at.ret) @@ st.sm]
        ELSE st

\* SymbolTableVisitor.visitSpawnStatement
visitSpawnStatement(st, func, i, stmt) ==
    LET arg_types == ArgTypes(func, stmt.args)
    IN  IF /\ stmt.callee \notin Builtins
           /\ stmt.callee \in DOMAIN prog
           /\ arg_types # <<>>
        THEN LET at == add_specialization([functions |-> st.functions, calls |-> st.calls],
                           stmt.callee, arg_types, stmt.callee, func.mangled_name)
             IN  [functions |-> [at.functions EXCEPT ![at.ret].is_async = TRUE,
                                                     ![at.ret].arg_channel_infos = <<>>],
                  calls |-> at.calls,
                  sm |-> (Site(func, i) :> at.ret) @@ st.sm]
        ELSE st

\* self.visit(ctx.block()): the statements of func's body from index i on
RECURSIVE visit_block(_, _, _)
visit_block(st, func, i) ==
    LET body == prog[func.ctx].body
    IN  IF i > Len(body) THEN st
        ELSE visit_block(IF body[i].k = "spawn"
                         THEN visitSpawnStatement(st, func, i, body[i])
                         ELSE visitFunctionCallExpr(st, func, i, body[i]),
                         func, i + 1)

\* SymbolTableVisitor._resolve_function for the instance keyed m
_resolve_function(st, m) ==
    LET st1 == visit_block(st, st.functions[m], 1)
    IN  [st1 EXCEPT !.functions[m].return_type = "VOID"]

ResolverState == [functions |-> functions, calls |-> calls, sm |-> specialization_map]

\* resolve(), phase 1: one iteration of the for-loop over the snapshot
\* current_functions; the while-loop takes a new snapshot when one is used up
\* and ends when a snapshot holds nothing unprocessed
ResolveDiscover ==
    /\ pc = "discover"
    /\ queue # <<>>
    /\ LET st   == _resolve_function(ResolverState, Head(queue))
           proc == processed \cup {Head(queue)}
           next == IF Tail(queue) # <<>> THEN Tail(queue)
                   ELSE SortedSeq(DOMAIN st.functions \ proc)
       IN  /\ functions' = st.functions
           /\ calls' = st.calls
           /\ specialization_map' = st.sm
           /\ processed' = proc
           /\ IF next = <<>>
              THEN pc' = "reresolve" /\ queue' = topological_order(st.functions, st.calls)
              ELSE pc' = pc /\ queue' = next
    /\ UNCHANGED <<prog, emitted, uses_async, imports>>
    /\ UNCHANGED <<histVars, assignVars, chanVars, inferVars, monoVars>>

\* resolve(), phase 2: one iteration of the loop over `order`
ResolveReresolve ==
    /\ pc = "reresolve"
    /\ queue # <<>>
    /\ LET st == _resolve_function(ResolverState, Head(queue))
       IN  /\ functions' = st.functions
           /\ calls' = st.calls
           /\ specialization_map' = st.sm
    /\ queue' = Tail(queue)
    /\ pc' = IF Tail(queue) = <<>> THEN "resolved" ELSE pc
    /\ UNCHANGED <<prog, processed, emitted, uses_async, imports>>
    /\ UNCHANGED <<histVars, assignVars, chanVars, inferVars, monoVars>>

\* CodeGenVisitor._generate_imports
_generate_imports(async) == IF async THEN <<"use tokio;">> ELSE <<>>

\* CodeGenVisitor.generate() up to the loop: the imports, and the order it
\* will emit in
GenerateStart ==
    /\ pc = "resolved"
    /\ pc' = "generate"
    /\ imports' = _generate_imports(uses_async)
    /\ queue' = topological_order(functions, calls)
    /\ UNCHANGED <<functions, calls, prog, processed, specialization_map, emitted, uses_async>>
    /\ UNCHANGED <<histVars, assignVars, chanVars, inferVars, monoVars>>

\* CodeGenVisitor.visitFunctionCallExpr / visitSpawnStatement: the callee
\* name written at statement i of func's body
EmittedCallee(func, i) ==
    IF Site(func, i) \in DOMAIN specialization_map
    THEN specialization_map[Site(func, i)]
    ELSE prog[func.ctx].body[i].callee

\* generate(): one iteration of the loop over topological_order()
GenerateFunction ==
    /\ pc = "generate"
    /\ queue # <<>>
    /\ LET func == functions[Head(queue)]
           body == prog[func.ctx].body
       IN  /\ emitted' = Append(emitted,
                  [mangled_name |-> func.mangled_name,
                   is_main |-> (func.name = Str_main),
                   is_async |-> func.is_async,
                   callees |-> [i \in DOMAIN body |-> EmittedCallee(func, i)]])
           /\ uses_async' = (uses_async \/ \E i \in DOMAIN body : body[i].k = "spawn")
    /\ queue' = Tail(queue)
    /\ pc' = IF Tail(queue) = <<>> THEN "done" ELSE pc
    /\ UNCHANGED <<functions, calls, prog, processed, specialization_map, imports>>
    /\ UNCHANGED <<histVars, assignVars, chanVars, inferVars, monoVars>>

Next ==
    \/ Build /\ UNCHANGED runVars
    \/ ResolveDiscover /\ UNCHANGED runVars
    \/ ResolveReresolve /\ UNCHANGED runVars
    \/ GenerateStart /\ UNCHANGED runVars
    \/ GenerateFunction /\ UNCHANGED runVars

Spec == Init /\ [][Next]_vars

----------------------------------------------------------------------------
(* SpecEntry: the same pipeline on programs in which main() may be absent, *)
(* f(a) may call itself, main and f may call or spawn main with an         *)
(* argument, h is called but never declared and g(a) is declared but never *)
(* called from main.                                                       *)

Str_h == <<104>>

EntryMainStmts == {Stmt(k, c, <<"INTEGER">>) : k \in Kinds, c \in {Str_f, Str_main, Str_h}}
EntryFStmts    == {Stmt(k, c, <<"PARAM">>) : k \in Kinds, c \in {Str_f, Str_main, Str_h}}
EntryGStmts    == {Stmt(k, Str_f, <<"INTEGER">>) : k \in Kinds}

\* a declaration that may be absent: the empty function or one binding
Declared(name, np, bodies) ==
    {<<>>} \cup {(name :> [np |-> np, body |-> b]) : b \in bodies}

EntryPrograms ==
    {m @@ f @@ g :
        m \in Declared(Str_main, 0, BodiesUpTo(EntryMainStmts, MaxMainStmts)),
        f \in Declared(Str_f, 1, BodiesUpTo(EntryFStmts, 1)),
        g \in Declared(Str_g, 1, BodiesUpTo(EntryGStmts, 1))}

InitEntry ==
    /\ prog \in EntryPrograms
    /\ pc = "build"
    /\ functions = <<>>
    /\ calls = <<>>
    /\ processed = {}
    /\ queue = <<>>
    /\ specialization_map = <<>>
    /\ emitted = <<>>
    /\ uses_async = FALSE
    /\ imports = <<>>
    /\ HistIdle
    /\ AssignIdle
    /\ ChanIdle
    /\ InferIdle
    /\ MonoIdle
    /\ RunIdle

\* build() when _main_ctx is None: raise ValueError, no Atlas is returned
BuildFails ==
    /\ pc = "build"
    /\ Str_main \notin DOMAIN prog
    /\ pc' = "error"
    /\ UNCHANGED <<functions, calls, prog, processed, queue, specialization_map, emitted,
                   uses_async, imports>>
    /\ UNCHANGED <<histVars, assignVars, chanVars, inferVars, monoVars>>

NextEntry ==
    \/ Build /\ UNCHANGED runVars
    \/ BuildFails /\ UNCHANGED runVars
    \/ ResolveDiscover /\ UNCHANGED runVars
    \/ ResolveReresolve /\ UNCHANGED runVars
    \/ GenerateStart /\ UNCHANGED runVars
    \/ GenerateFunction /\ UNCHANGED runVars

SpecEntry == InitEntry /\ [][NextEntry]_vars

----------------------------------------------------------------------------
(* SpecTwice: compile() run twice on one parse tree.  The first run        *)
(* records every state it passes through; the second run starts from       *)
(* newly constructed AtlasBuilder, SymbolTableVisitor and CodeGenVisitor   *)
(* objects, as compile() constructs them on every call.                    *)

TwicePrograms ==
    {p \in Programs : p[Str_g].body = <<>> /\ p[Str_used].body = <<>>}

\* what a run has computed so far
Snapshot ==
    [pc |-> pc, functions |-> functions, calls |-> calls, processed |-> processed,
     queue |-> queue, specialization_map |-> specialization_map, emitted |-> emitted,
     uses_async |-> uses_async, imports |-> imports]

InitTwice ==
    /\ prog \in TwicePrograms
    /\ pc = "build"
    /\ functions = <<>>
    /\ calls = <<>>
    /\ processed = {}
    /\ queue = <<>>
    /\ specialization_map = <<>>
    /\ emitted = <<>>
    /\ uses_async = FALSE
    /\ imports = <<>>
    /\ run = 1
    /\ step = 0
    /\ trace = <<>>
    /\ HistIdle
    /\ AssignIdle
    /\ ChanIdle
    /\ InferIdle
    /\ MonoIdle

\* one more step of the running compilation; the first one is recorded
RecordStep ==
    /\ run' = run
    /\ step' = step + 1
    /\ trace' = IF run = 1 THEN Append(trace, Snapshot') ELSE trace

\* compile() called again with objects that keep the resolver's `processed`
Restart_keeping_processed ==
    /\ pc = "done"
    /\ run = 1
    /\ run' = 2
    /\ step' = 0
    /\ pc' = "build"
    /\ functions' = <<>>
    /\ calls' = <<>>
    /\ queue' = <<>>
    /\ specialization_map' = <<>>
    /\ emitted' = <<>>
    /\ uses_async' = FALSE
    /\ imports' = <<>>
    /\ UNCHANGED <<prog, processed, trace>>
    /\ UNCHANGED <<histVars, assignVars, chanVars, inferVars, monoVars>>

\* compile() called again on the same tree: AtlasBuilder(), then
\* SymbolTableVisitor(atlas), then CodeGenVisitor(...) are constructed anew
Restart ==
    /\ pc = "done"
    /\ run = 1
    /\ run' = 2
    /\ step' = 0
    /\ pc' = "build"
    /\ functions' = <<>>
    /\ calls' = <<>>
    /\ processed' = {}
    /\ queue' = <<>>
    /\ specialization_map' = <<>>
    /\ emitted' = <<>>
    /\ uses_async' = FALSE
    /\ imports' = <<>>
    /\ UNCHANGED <<prog, trace>>
    /\ UNCHANGED <<histVars, assignVars, chanVars, inferVars, monoVars>>

NextTwice ==
    \/ Build /\ RecordStep
    \/ ResolveDiscover /\ RecordStep
    \/ ResolveReresolve /\ RecordStep
    \/ GenerateStart /\ RecordStep
    \/ GenerateFunction /\ RecordStep
    \/ Restart

SpecTwice == InitTwice /\ [][NextTwice]_vars

(* C2: distinct (name, arg_types) pairs get distinct mangled names, and the  *)
(* number of instances add_specialization created equals the number of      *)
(* distinct pairs requested.                                                *)
C2_DistinctPairsDistinctInstances ==
    /\ \A p \in requested, q \in requested : p # q => first_ret[p] # first_ret[q]
    /\ Cardinality(DOMAIN functions \ {Str_main}) = Cardinality(requested)

(* C3: once a pair has been requested, requesting it again, from any caller *)
(* and after any other requests, returns the name the first request         *)
(* returned, leaves the key set of Atlas.functions unchanged and leaves     *)
(* every instance (return_type, is_async, arg_channel_infos) as it was.     *)
C3_Idempotent ==
    \A p \in requested, c \in AtlasCallers \cup {None} \cup DOMAIN functions :
        LET r == add_specialization([functions |-> functions, calls |-> calls],
                                    p[1], p[2], p[1], c)
        IN  /\ r.ret = first_ret[p]
            /\ DOMAIN r.functions = DOMAIN functions
            /\ r.functions = functions

\* a pair was requested a second time after its instance had been marked
\* async and given a return type, and between the two another pair was added
C3_Witness ==
    /\ last_repeat
    /\ Cardinality(requested) >= 2
    /\ functions[last_ret].is_async
    /\ functions[last_ret].return_type = "INTEGER"

----------------------------------------------------------------------------
(* Bindings of the variable x in main's body.  Statement i is either        *)
(*   x = <literal>   with a literal of type t; for an array literal `empty` *)
(*                   tells [] from [1]                                      *)
(*   x.push(1)                                                              *)
(* Source intervals: <<i, 0>> is the assignment target (or the receiver of  *)
(* push), <<i, 1>> the right-hand side (or the member access), <<i, 2>> an  *)
(* inner literal, <<i, 3>> the call expression of push.                     *)

MaxAssigns == 4

Assign(t, empty) == [k |-> "assign", t |-> t, empty |-> empty]
Push == [k |-> "push", t |-> "ARRAY", empty |-> FALSE]

AStmts == {Assign("INTEGER", FALSE), Assign("STRING", FALSE),
           Assign("ARRAY", TRUE), Assign("ARRAY", FALSE), Push}

ABodies == UNION {[1..n -> AStmts] : n \in 1..MaxAssigns}

\* self.visit(ctx.expression()) for the right-hand side of statement i:
\* visitLiteral, or visitArrayLiteral after its elements
visitRhs(st, stmt, i) ==
    IF stmt.t = "ARRAY"
    THEN define_temp(IF stmt.empty THEN st
                     ELSE define_temp(st, "INTEGER", <<i, 2>>, "LITERAL"),
                     "ARRAY", <<i, 1>>, "TEMPORARY")
    ELSE define_temp(st, stmt.t, <<i, 1>>, "LITERAL")

\* the branch of visitVariableAssignment that leaves the existing symbol
\* unmarked (symbols.py line 967 dropped)
visitVariableAssignment_unmarked(st, stmt, i) ==
    LET st1      == visitRhs(st, stmt, i)
        existing == lookup_by_id(st1, Str_x)
    IN  IF existing = 0
        THEN define(st1, Str_x, "VARIABLE", stmt.t, <<i, 0>>, FALSE)
        ELSE IF st1.symbols[existing].resolved_type # stmt.t
        THEN define(st1, Str_x, "VARIABLE", stmt.t, <<i, 0>>, TRUE)
        ELSE IF /\ stmt.t = "ARRAY"
                /\ st1.symbols[existing].element_type # "None"
                /\ stmt.empty
        THEN define(st1, Str_x, "VARIABLE", stmt.t, <<i, 0>>, TRUE)
        ELSE define_temp(st1, stmt.t, <<i, 0>>, "TEMPORARY")

\* SymbolTableVisitor.visitVariableAssignment for `x = <literal>`
visitVariableAssignment(st, stmt, i) ==
    LET st1      == visitRhs(st, stmt, i)
        existing == lookup_by_id(st1, Str_x)
    IN  IF existing = 0
        THEN define(st1, Str_x, "VARIABLE", stmt.t, <<i, 0>>, FALSE)
        ELSE IF st1.symbols[existing].resolved_type # stmt.t
        THEN define(st1, Str_x, "VARIABLE", stmt.t, <<i, 0>>, TRUE)
        ELSE IF /\ stmt.t = "ARRAY"
                /\ st1.symbols[existing].element_type # "None"
                /\ stmt.empty
        THEN define(st1, Str_x, "VARIABLE", stmt.t, <<i, 0>>, TRUE)
        ELSE define_temp([st1 EXCEPT !.symbols[existing].is_mutated = TRUE],
                         stmt.t, <<i, 0>>, "TEMPORARY")

\* SymbolTableVisitor.visitFunctionCallExpr for `x.push(1)`.  mutating is the
\* value is_mutating_method(type of x, "push") returns; zinc.ast.types does
\* not define that function, so both values are considered.
visitPush(st, i, mutating) ==
    LET recv == lookup_by_id(st, Str_x)
        st1  == define_temp(st, IF recv = 0 THEN "UNKNOWN"
                                ELSE st.symbols[recv].resolved_type,
                            <<i, 0>>, "TEMPORARY")
        st2  == define_temp(st1, "UNKNOWN", <<i, 1>>, "TEMPORARY")
        st3  == define_temp(st2, "INTEGER", <<i, 2>>, "LITERAL")
        var_symbol == lookup_by_id(st3, Str_x)
        st4  == IF var_symbol # 0 /\ mutating
                THEN [st3 EXCEPT !.symbols[var_symbol].is_mutated = TRUE]
                ELSE st3
        st5  == IF /\ var_symbol # 0
                   /\ st4.symbols[var_symbol].resolved_type = "ARRAY"
                   /\ st4.symbols[var_symbol].element_type = "None"
                THEN [st4 EXCEPT !.symbols[var_symbol].element_type = "INTEGER"]
                ELSE st4
    IN  define_temp(st5, "UNKNOWN", <<i, 3>>, "TEMPORARY")

\* CodeGenVisitor.visitVariableAssignment for `x = <literal>`: the form of
\* the emitted statement and the new _declared_vars
emitVariableAssignment(st, declared, i) ==
    LET symbol == lookup_by_interval(st, <<i, 0>>, PyNone)
    IN  IF symbol = 0
        THEN [form |-> "let", declared |-> declared]
        ELSE IF st.symbols[symbol].is_shadow \/ Str_x \notin declared
        THEN [form |-> IF st.symbols[symbol].is_mutated THEN "let mut" ELSE "let",
              declared |-> declared \cup {Str_x}]
        ELSE [form |-> "assign", declared |-> declared]

\* After AtlasBuilder.build() and SymbolTableVisitor(atlas): the Atlas holds
\* main only, the symbol table is new.
InitAssign ==
    /\ abody \in ABodies
    /\ apc = [phase |-> "start", pass |-> 1, i |-> 0]
    /\ symtab = NewSymbolTable
    /\ declared_vars = {}
    /\ rust = <<>>
    /\ functions = (Str_main :> MainInstance)
    /\ calls = (Str_main :> {})
    /\ HistIdle
    /\ PipeIdle
    /\ ChanIdle
    /\ InferIdle
    /\ MonoIdle
    /\ RunIdle

\* resolve() up to its first loop
RegisterBuiltins ==
    /\ apc.phase = "start"
    /\ symtab' = _register_builtins(symtab)
    /\ apc' = [apc EXCEPT !.phase = "enter"]
    /\ UNCHANGED <<abody, declared_vars, rust>>
    /\ UNCHANGED <<atlasVars, histVars, pipeVars, chanVars, inferVars, monoVars, runVars>>

\* _resolve_function(main) up to the visit of the body
EnterFunction ==
    /\ apc.phase = "enter"
    /\ symtab' = enter_scope(symtab, functions[Str_main].mangled_name)
    /\ apc' = [apc EXCEPT !.phase = "body", !.i = 1]
    /\ UNCHANGED <<abody, declared_vars, rust>>
    /\ UNCHANGED <<atlasVars, histVars, pipeVars, chanVars, inferVars, monoVars, runVars>>

\* visitBlock: the visit of statement i
VisitStatement ==
    /\ apc.phase = "body"
    /\ apc.i <= Len(abody)
    /\ \/ /\ abody[apc.i].k = "assign"
          /\ symtab' = visitVariableAssignment(symtab, abody[apc.i], apc.i)
       \/ /\ abody[apc.i].k = "push"
          /\ \E mutating \in BOOLEAN : symtab' = visitPush(symtab, apc.i, mutating)
    /\ apc' = [apc EXCEPT !.i = @ + 1]
    /\ UNCHANGED <<abody, declared_vars, rust>>
    /\ UNCHANGED <<atlasVars, histVars, pipeVars, chanVars, inferVars, monoVars, runVars>>

\* _resolve_function(main) after the body; main is resolved once in each
\* phase of resolve()
ExitFunction ==
    /\ apc.phase = "body"
    /\ apc.i > Len(abody)
    /\ symtab' = exit_scope(symtab)
    /\ functions' = [functions EXCEPT ![Str_main].return_type = "VOID"]
    /\ apc' = IF apc.pass = 1 THEN [phase |-> "enter", pass |-> 2, i |-> 0]
              ELSE [phase |-> "resolved", pass |-> 2, i |-> 0]
    /\ UNCHANGED <<abody, declared_vars, rust>>
    /\ UNCHANGED <<calls, histVars, pipeVars, chanVars, inferVars, monoVars, runVars>>

\* generate() up to the visit of main's body
GenerateBegin ==
    /\ apc.phase = "resolved"
    /\ declared_vars' = {}
    /\ apc' = [apc EXCEPT !.phase = "emit", !.i = 1]
    /\ UNCHANGED <<abody, symtab, rust>>
    /\ UNCHANGED <<atlasVars, histVars, pipeVars, chanVars, inferVars, monoVars, runVars>>

\* _generate_block: the visit of statement i
EmitStatement ==
    /\ apc.phase = "emit"
    /\ apc.i <= Len(abody)
    /\ IF abody[apc.i].k = "assign"
       THEN LET r == emitVariableAssignment(symtab, declared_vars, apc.i)
            IN  rust' = Append(rust, r.form) /\ declared_vars' = r.declared
       ELSE rust' = Append(rust, "expr") /\ UNCHANGED declared_vars
    /\ apc' = IF apc.i = Len(abody) THEN [apc EXCEPT !.phase = "done"]
              ELSE [apc EXCEPT !.i = @ + 1]
    /\ UNCHANGED <<abody, symtab>>
    /\ UNCHANGED <<atlasVars, histVars, pipeVars, chanVars, inferVars, monoVars, runVars>>

NextAssign ==
    \/ RegisterBuiltins
    \/ EnterFunction
    \/ VisitStatement
    \/ ExitFunction
    \/ GenerateBegin
    \/ EmitStatement

SpecAssign == InitAssign /\ [][NextAssign]_vars

----------------------------------------------------------------------------
(* Channel naming (SpecChan).                                              *)
(*                                                                         *)
(* A program is a sequence of channel statements over the variables c and  *)
(* d:  `v = chan()`,  `v <- 1`  and  `x = <- v`, every use of a variable   *)
(* after a declaration of it.  In the Visitor pipeline (Visitor.visit,     *)
(* then Visitor.finalize) the statements stand either at the top level of  *)
(* the file or in the block of one function; in the Atlas pipeline         *)
(* (SymbolTableVisitor, then CodeGenVisitor) they stand in main's block.   *)
(* The model records the name each pipeline writes at every send site and  *)
(* at every receive site.                                                  *)

MaxChanStmts == 4

Str_c     == <<99>>
Str_d     == <<100>>
Suffix_tx == <<95, 116, 120>>
Suffix_rx == <<95, 114, 120>>

ChanNames == {Str_c, Str_d}
ChanOps   == {"decl", "send", "recv"}

ChanStmt(op, v, lvl) == [op |-> op, v |-> v, lvl |-> lvl]

StmtsAt(lvl) == {ChanStmt(op, v, lvl) : op \in ChanOps, v \in ChanNames}

\* every send and receive follows a declaration of its variable
DeclaredBeforeUse(p) ==
    \A i \in DOMAIN p :
        p[i].op # "decl" => \E j \in 1..(i - 1) : p[j].op = "decl" /\ p[j].v = p[i].v

ChanPrograms(lvl) ==
    {p \in UNION {[1..n -> StmtsAt(lvl)] : n \in 1..MaxChanStmts} : DeclaredBeforeUse(p)}

\* the statement the driver is at
CurStmt == cprog[cpc.i]

\* dict[key] = value
Put(d, k, v) == (k :> v) @@ d

\* `if name not in self._channel_usages: ... = set()` then `.add(role)`
AddUsage(usages, name, role) ==
    Put(usages, name, (IF name \in DOMAIN usages THEN usages[name] ELSE {}) \cup {role})

\* Visitor.visitChannelReceiveExpr: the receiver usage, and the identifier
\* rewritten to the receiver name when the variable is in _channel_name_map
visitChannelReceiveExpr(usages, name_map, v) ==
    [usages |-> AddUsage(usages, v, "receiver"),
     name   |-> IF v \in DOMAIN name_map THEN name_map[v][2] ELSE v]

\* ChannelDeclaration(base_name, sender_name, receiver_name)
ChannelDeclaration(base, sender, receiver) ==
    [base_name |-> base, sender_name |-> sender, receiver_name |-> receiver]

\* Visitor.finalize, the naming of one pending channel declaration
finalize_names(usages, v) ==
    LET u == IF v \in DOMAIN usages THEN usages[v] ELSE {} IN
    IF u = {"sender"} THEN ChannelDeclaration(v, v, v \o Suffix_rx)
    ELSE IF u = {"receiver"} THEN ChannelDeclaration(v, v \o Suffix_tx, v)
    ELSE ChannelDeclaration(v, v \o Suffix_tx, v \o Suffix_rx)

\* CodeGenVisitor.visitChannelReceiveExpr: the name before `.recv()`
codegen_receiver(infos, v) == IF v \in infos THEN v \o Suffix_rx ELSE v

ChanSite(v, name) == [i |-> cpc.i, v |-> v, name |-> name]

InitChan ==
    /\ cpipe \in {"visitor", "atlas"}
    /\ cprog \in (IF cpipe = "visitor"
                  THEN ChanPrograms("top") \cup ChanPrograms("block")
                  ELSE ChanPrograms("block"))
    /\ cpc = [phase |-> (IF cpipe = "visitor" THEN "visit" ELSE "resolve"),
              pass |-> 1, i |-> 1]
    /\ _channel_usages = <<>>
    /\ _channel_name_map = <<>>
    /\ _pending_channel_decls = <<>>
    /\ _channel_infos = {}
    /\ channel_decls = <<>>
    /\ send_sites = {}
    /\ recv_sites = {}
    /\ functions = (Str_main :> MainInstance)
    /\ calls = (Str_main :> {})
    /\ HistIdle
    /\ PipeIdle
    /\ AssignIdle
    /\ InferIdle
    /\ MonoIdle
    /\ RunIdle

Advance == cpc' = [cpc EXCEPT !.i = @ + 1]

AtVisitor(lvl, ops) ==
    /\ cpipe = "visitor"
    /\ cpc.phase = "visit"
    /\ cpc.i <= Len(cprog)
    /\ CurStmt.lvl = lvl
    /\ CurStmt.op \in ops

\* Visitor.visitVariableAssignment on a top-level statement: `v = chan()`
\* becomes a pending declaration; `x = <- v` visits the receive expression
Visitor_visitVariableAssignment ==
    /\ AtVisitor("top", {"decl", "recv"})
    /\ LET v == CurStmt.v
           r == visitChannelReceiveExpr(_channel_usages, _channel_name_map, v) IN
       IF CurStmt.op = "decl"
       THEN /\ _channel_usages' = Put(_channel_usages, v, {})
            /\ _pending_channel_decls' = Append(_pending_channel_decls, v)
            /\ UNCHANGED recv_sites
       ELSE /\ _channel_usages' = r.usages
            /\ recv_sites' = recv_sites \cup {ChanSite(v, r.name)}
            /\ UNCHANGED _pending_channel_decls
    /\ Advance
    /\ UNCHANGED <<cpipe, cprog, _channel_name_map, _channel_infos, channel_decls, send_sites>>
    /\ UNCHANGED <<atlasVars, histVars, pipeVars, assignVars, inferVars, monoVars, runVars>>

\* Visitor.visitChannelSendStatement on a top-level statement
Visitor_visitChannelSendStatement ==
    /\ AtVisitor("top", {"send"})
    /\ _channel_usages' = AddUsage(_channel_usages, CurStmt.v, "sender")
    /\ send_sites' = send_sites \cup {ChanSite(CurStmt.v, CurStmt.v)}
    /\ Advance
    /\ UNCHANGED <<cpipe, cprog, _channel_name_map, _pending_channel_decls,
                   _channel_infos, channel_decls, recv_sites>>
    /\ UNCHANGED <<atlasVars, histVars, pipeVars, assignVars, inferVars, monoVars, runVars>>

\* Visitor._visit_statement on a statement of a function's block
Visitor_visit_statement ==
    /\ AtVisitor("block", ChanOps)
    /\ LET v == CurStmt.v
           r == visitChannelReceiveExpr(_channel_usages, _channel_name_map, v) IN
       CASE CurStmt.op = "decl" ->
              /\ _channel_usages' = Put(_channel_usages, v, {})
              /\ _channel_name_map' =
                     Put(_channel_name_map, v, <<v \o Suffix_tx, v \o Suffix_rx>>)
              /\ channel_decls' = Append(channel_decls,
                     ChannelDeclaration(v, v \o Suffix_tx, v \o Suffix_rx))
              /\ UNCHANGED <<send_sites, recv_sites>>
         [] CurStmt.op = "send" ->
              /\ _channel_usages' = AddUsage(_channel_usages, v, "sender")
              /\ send_sites' = send_sites \cup {ChanSite(v, v)}
              /\ UNCHANGED <<_channel_name_map, channel_decls, recv_sites>>
         [] CurStmt.op = "recv" ->
              /\ _channel_usages' = r.usages
              /\ recv_sites' = recv_sites \cup {ChanSite(v, r.name)}
              /\ UNCHANGED <<_channel_name_map, channel_decls, send_sites>>
    /\ Advance
    /\ UNCHANGED <<cpipe, cprog, _pending_channel_decls, _channel_infos>>
    /\ UNCHANGED <<atlasVars, histVars, pipeVars, assignVars, inferVars, monoVars, runVars>>

\* Visitor.finalize: the pending top-level declarations get their names
Visitor_finalize ==
    /\ cpipe = "visitor"
    /\ cpc.phase = "visit"
    /\ cpc.i > Len(cprog)
    /\ channel_decls' = channel_decls \o
           [k \in DOMAIN _pending_channel_decls |->
                finalize_names(_channel_usages, _pending_channel_decls[k])]
    /\ cpc' = [cpc EXCEPT !.phase = "done"]
    /\ UNCHANGED <<cpipe, cprog, _channel_usages, _channel_name_map,
                   _pending_channel_decls, _channel_infos, send_sites, recv_sites>>
    /\ UNCHANGED <<atlasVars, histVars, pipeVars, assignVars, inferVars, monoVars, runVars>>

\* SymbolTableVisitor on one statement of main's block: visitVariableAssignment
\* registers a channel created by chan(); visitChannelSendStatement and
\* visitChannelReceiveExpr leave the set of channel names alone.  resolve()
\* walks the block twice
Resolver_visitStatement ==
    /\ cpipe = "atlas"
    /\ cpc.phase = "resolve"
    /\ _channel_infos' = IF CurStmt.op = "decl"
                         THEN _channel_infos \cup {CurStmt.v}
                         ELSE _channel_infos
    /\ cpc' = IF cpc.i < Len(cprog) THEN [cpc EXCEPT !.i = @ + 1]
              ELSE IF cpc.pass = 1 THEN [cpc EXCEPT !.pass = 2, !.i = 1]
              ELSE [phase |-> "generate", pass |-> 2, i |-> 1]
    /\ UNCHANGED <<cpipe, cprog, _channel_usages, _channel_name_map,
                   _pending_channel_decls, channel_decls, send_sites, recv_sites>>
    /\ UNCHANGED <<atlasVars, histVars, pipeVars, assignVars, inferVars, monoVars, runVars>>

\* CodeGenVisitor on one statement of main's block: visitVariableAssignment
\* (chan), visitChannelSendStatement, visitChannelReceiveExpr
CodeGen_visitStatement ==
    /\ cpipe = "atlas"
    /\ cpc.phase = "generate"
    /\ LET v == CurStmt.v IN
       CASE CurStmt.op = "decl" ->
              /\ channel_decls' = Append(channel_decls,
                     ChannelDeclaration(v, v \o Suffix_tx, v \o Suffix_rx))
              /\ UNCHANGED <<send_sites, recv_sites>>
         [] CurStmt.op = "send" ->
              /\ send_sites' = send_sites \cup {ChanSite(v, v)}
              /\ UNCHANGED <<channel_decls, recv_sites>>
         [] CurStmt.op = "recv" ->
              /\ recv_sites' = recv_sites \cup {ChanSite(v, codegen_receiver(_channel_infos, v))}
              /\ UNCHANGED <<channel_decls, send_sites>>
    /\ cpc' = IF cpc.i < Len(cprog) THEN [cpc EXCEPT !.i = @ + 1]
              ELSE [cpc EXCEPT !.phase = "done"]
    /\ UNCHANGED <<cpipe, cprog, _channel_usages, _channel_name_map,
                   _pending_channel_decls, _channel_infos>>
    /\ UNCHANGED <<atlasVars, histVars, pipeVars, assignVars, inferVars, monoVars, runVars>>

NextChan ==
    \/ Visitor_visitVariableAssignment
    \/ Visitor_visitChannelSendStatement
    \/ Visitor_visit_statement
    \/ Visitor_finalize
    \/ Resolver_visitStatement
    \/ CodeGen_visitStatement

SpecChan == InitChan /\ [][NextChan]_vars

----------------------------------------------------------------------------
(* Channel element types in the resolver (SpecInfer).                       *)
(*                                                                          *)
(* A program declares main() and p(ch).  main's body is a sequence of       *)
(*   v = chan()     spawn p(v)     x = <- v  (y for the channel d)          *)
(*   v <- 1                                                                 *)
(* over the channels c and d, every use after a declaration; p's body is a  *)
(* sequence of sends  ch <- 1  /  ch <- "s"  on its parameter.  A           *)
(* ChannelTypeInfo object is referred to by its position in chan_objects,   *)
(* so that a type stored through one reference is seen through every other.*)
(* Source intervals: <<i, 0>> is the target of statement i, <<i, 1>> its    *)
(* right-hand side or argument, <<i, 2>> an inner identifier.               *)

MaxInferStmts == 5
MaxSends == 2

Str_p  == <<112>>
Str_ch == <<99, 104>>
Str_y  == <<121>>

IStmt(k, v, t) == [k |-> k, v |-> v, t |-> t]

InferMainStmts ==
    {IStmt(k, v, "CHANNEL") : k \in {"decl", "spawn", "recv"}, v \in ChanNames}
        \cup {IStmt("send", v, "INTEGER") : v \in ChanNames}

InferPStmts == {IStmt("send", Str_ch, t) : t \in {"INTEGER", "STRING"}}

InferPrograms ==
    {(Str_main :> [np |-> 0, param |-> None, body |-> mb]) @@
     (Str_p :> [np |-> 1, param |-> Str_ch, body |-> pb]) :
        mb \in {b \in UNION {[1..n -> InferMainStmts] : n \in 1..MaxInferStmts} :
                    DeclaredBeforeUse([i \in DOMAIN b |-> [op |-> b[i].k, v |-> b[i].v]])},
        pb \in UNION {[1..n -> InferPStmts] : n \in 1..MaxSends}}

\* ChannelTypeInfo(element_type=BaseType.UNKNOWN)
ChannelTypeInfo == [element_type |-> "UNKNOWN", is_bounded |-> FALSE]

\* the variable a receive from channel v is bound to
TargetOf(v) == IF v = Str_c THEN Str_x ELSE Str_y

\* visitPrimaryExpression on an identifier: the type, and the temporary
IdentType(st, id) ==
    LET n == lookup_by_id(st.symtab, id)
    IN  IF n # 0 THEN st.symtab.symbols[n].resolved_type ELSE "UNKNOWN"

visitIdentifier(st, id, interval) ==
    [st EXCEPT !.symtab = define_temp(st.symtab, IdentType(st, id), interval, "TEMP")]

\* visitVariableAssignment from `existing` on: first binding, shadow, or
\* reassignment of the same type
bind(st, id, expr_type, interval) ==
    LET existing == lookup_by_id(st.symtab, id) IN
    IF existing = 0
    THEN [st EXCEPT !.symtab = define(st.symtab, id, "VARIABLE", expr_type, interval, FALSE)]
    ELSE IF st.symtab.symbols[existing].resolved_type # expr_type
    THEN [st EXCEPT !.symtab = define(st.symtab, id, "VARIABLE", expr_type, interval, TRUE)]
    ELSE [st EXCEPT !.symtab =
              define_temp([st.symtab EXCEPT !.symbols[existing].is_mutated = TRUE],
                          expr_type, interval, "TEMP")]

\* visitVariableAssignment on `v = chan()`
visitChanAssignment(st, i, v) ==
    LET st1 == [st EXCEPT !.symtab = define_temp(st.symtab, "CHANNEL", <<i, 1>>, "TEMP")]
        keep == v \in DOMAIN st1.refs
                    /\ st1.objs[st1.refs[v]].element_type # "UNKNOWN"
        st2 == IF keep THEN st1
               ELSE [st1 EXCEPT !.objs = Append(@, ChannelTypeInfo),
                                !.refs = (v :> Len(st1.objs) + 1) @@ @]
    IN  bind(st2, v, "CHANNEL", <<i, 0>>)

\* SymbolTableVisitor.visitChannelSendStatement on `v <- literal of type t`
visitChannelSendStatement(st, i, v, t) ==
    LET st1 == [st EXCEPT !.symtab = define_temp(st.symtab, t, <<i, 1>>, "TEMP")] IN
    IF v \in DOMAIN st1.refs
    THEN IF st1.objs[st1.refs[v]].element_type = "UNKNOWN"
         THEN [st1 EXCEPT !.objs[st1.refs[v]].element_type = t]
         ELSE [st1 EXCEPT !.conflict =
                   @ \/ st1.objs[st1.refs[v]].element_type # t]
    ELSE st1

\* SymbolTableVisitor.visitChannelReceiveExpr inside `x = <- v`, then the
\* binding of the target
visitReceiveAssignment(st, i, v) ==
    LET st1  == visitIdentifier(st, v, <<i, 2>>)
        elem == IF v \in DOMAIN st1.refs THEN st1.objs[st1.refs[v]].element_type
                ELSE "UNKNOWN"
        st2  == [st1 EXCEPT !.symtab = define_temp(st1.symtab, elem, <<i, 1>>, "TEMP")]
    IN  bind(st2, TargetOf(v), elem, <<i, 0>>)

\* SymbolTableVisitor.visitSpawnStatement on `spawn p(v)` in the instance func
visitSpawnChannel(st, func, i, v) ==
    LET arg_type == IdentType(st, v)
        st1 == visitIdentifier(st, v, <<i, 1>>)
        arg_channel_infos ==
            IF arg_type = "CHANNEL" /\ v \in DOMAIN st1.refs
            THEN (1 :> st1.refs[v]) ELSE <<>>
        r == add_specialization([functions |-> st1.functions, calls |-> st1.calls],
                                Str_p, <<arg_type>>, Str_p, func.mangled_name)
    IN  [st1 EXCEPT !.functions =
                        [r.functions EXCEPT ![r.ret].is_async = TRUE,
                                            ![r.ret].arg_channel_infos = arg_channel_infos],
                    !.calls = r.calls,
                    !.sm = (Site(func, i) :> r.ret) @@ @]

visitInferStmt(st, func, i, s) ==
    CASE s.k = "decl"  -> visitChanAssignment(st, i, s.v)
      [] s.k = "spawn" -> visitSpawnChannel(st, func, i, s.v)
      [] s.k = "recv"  -> visitReceiveAssignment(st, i, s.v)
      [] s.k = "send"  -> visitChannelSendStatement(st, i, s.v, s.t)

\* visitBlock: the statements of func's body from statement i on
RECURSIVE visitInferBlock(_, _, _)
visitInferBlock(st, func, i) ==
    IF i > Len(prog[func.ctx].body) THEN st
    ELSE visitInferBlock(visitInferStmt(st, func, i, prog[func.ctx].body[i]), func, i + 1)

\* _resolve_function with the channel bookkeeping of its parameter loop
resolve_function_channels(st, m) ==
    LET func == st.functions[m]
        decl == prog[func.ctx]
        st1  == [st EXCEPT !.symtab = enter_scope(st.symtab, m)]
        ptype == IF 1 <= Len(func.arg_types) THEN func.arg_types[1] ELSE "UNKNOWN"
        st2  == IF decl.np = 0 THEN st1
                ELSE LET s == [st1 EXCEPT !.symtab =
                                   define(st1.symtab, decl.param, "PARAMETER", ptype,
                                          <<0, 0>>, FALSE)]
                     IN  IF ptype = "CHANNEL" /\ 1 \in DOMAIN func.arg_channel_infos
                         THEN [s EXCEPT !.refs =
                                   (decl.param :> func.arg_channel_infos[1]) @@ @]
                         ELSE s
        st3  == visitInferBlock(st2, func, 1)
    IN  [st3 EXCEPT !.functions[m].return_type = "VOID",
                    !.symtab = exit_scope(st3.symtab)]

\* AtlasBuilder.build(): the call graph over the declarations reachable from
\* main; p is reachable when main spawns it
InferCalls(p) ==
    IF \E i \in DOMAIN p[Str_main].body : p[Str_main].body[i].k = "spawn"
    THEN (Str_main :> {Str_p}) @@ (Str_p :> {})
    ELSE (Str_main :> {})

InferState ==
    [functions |-> functions, calls |-> calls, sm |-> specialization_map,
     symtab |-> symtab, objs |-> chan_objects, refs |-> chan_of,
     conflict |-> send_conflict]

\* AtlasBuilder.build() has returned and SymbolTableVisitor was constructed
InitInfer ==
    /\ prog \in InferPrograms
    /\ pc = "start"
    /\ functions = (Str_main :> MainInstance)
    /\ calls = InferCalls(prog)
    /\ processed = {}
    /\ queue = <<>>
    /\ specialization_map = <<>>
    /\ emitted = <<>>
    /\ uses_async = FALSE
    /\ imports = <<>>
    /\ abody = <<>>
    /\ apc = [phase |-> "idle", pass |-> 0, i |-> 0]
    /\ symtab = NewSymbolTable
    /\ declared_vars = {}
    /\ rust = <<>>
    /\ chan_objects = <<>>
    /\ chan_of = <<>>
    /\ send_conflict = FALSE
    /\ HistIdle
    /\ ChanIdle
    /\ MonoIdle
    /\ RunIdle

InferFrame == UNCHANGED <<prog, emitted, uses_async, imports, runVars, abody, apc, declared_vars, rust,
                          histVars, chanVars, monoVars>>

\* resolve() up to its first loop: _register_builtins, the first snapshot
InferBegin ==
    /\ pc = "start"
    /\ symtab' = _register_builtins(symtab)
    /\ queue' = SortedSeq(DOMAIN functions)
    /\ pc' = "discover"
    /\ UNCHANGED <<functions, calls, processed, specialization_map, inferVars>>
    /\ InferFrame

InferApply(st) ==
    /\ functions' = st.functions
    /\ calls' = st.calls
    /\ specialization_map' = st.sm
    /\ symtab' = st.symtab
    /\ chan_objects' = st.objs
    /\ chan_of' = st.refs
    /\ send_conflict' = st.conflict

\* resolve(), phase 1: one iteration of the for-loop over current_functions
InferDiscover ==
    /\ pc = "discover"
    /\ queue # <<>>
    /\ LET st   == resolve_function_channels(InferState, Head(queue))
           proc == processed \cup {Head(queue)}
           next == IF Tail(queue) # <<>> THEN Tail(queue)
                   ELSE SortedSeq(DOMAIN st.functions \ proc)
       IN  /\ InferApply(st)
           /\ processed' = proc
           /\ IF next = <<>>
              THEN pc' = "reresolve" /\ queue' = topological_order(st.functions, st.calls)
              ELSE pc' = pc /\ queue' = next
    /\ InferFrame

\* resolve(), phase 2: one iteration of the loop over `order`
InferReresolve ==
    /\ pc = "reresolve"
    /\ queue # <<>>
    /\ InferApply(resolve_function_channels(InferState, Head(queue)))
    /\ queue' = Tail(queue)
    /\ pc' = IF Tail(queue) = <<>> THEN "resolved" ELSE pc
    /\ UNCHANGED processed
    /\ InferFrame

NextInfer ==
    \/ InferBegin
    \/ InferDiscover
    \/ InferReresolve

SpecInfer == InitInfer /\ [][NextInfer]_vars

----------------------------------------------------------------------------
(* SpecNames: the same resolver steps on programs in which the parameter   *)
(* of p is named ch or, like a channel variable of main, c.                *)

MaxNamesStmts == 4

NamesPrograms ==
    {(Str_main :> [np |-> 0, param |-> None, body |-> mb]) @@
     (Str_p :> [np |-> 1, param |-> pn, body |-> <<IStmt("send", pn, t)>>]) :
        pn \in {Str_ch, Str_c}, t \in {"INTEGER", "STRING"},
        mb \in {b \in UNION {[1..n -> InferMainStmts] : n \in 1..MaxNamesStmts} :
                    DeclaredBeforeUse([i \in DOMAIN b |-> [op |-> b[i].k, v |-> b[i].v]])}}

\* AtlasBuilder.build() has returned and SymbolTableVisitor was constructed
InitNames ==
    /\ prog \in NamesPrograms
    /\ pc = "start"
    /\ functions = (Str_main :> MainInstance)
    /\ calls = InferCalls(prog)
    /\ processed = {}
    /\ queue = <<>>
    /\ specialization_map = <<>>
    /\ emitted = <<>>
    /\ uses_async = FALSE
    /\ imports = <<>>
    /\ abody = <<>>
    /\ apc = [phase |-> "idle", pass |-> 0, i |-> 0]
    /\ symtab = NewSymbolTable
    /\ declared_vars = {}
    /\ rust = <<>>
    /\ chan_objects = <<>>
    /\ chan_of = <<>>
    /\ send_conflict = FALSE
    /\ HistIdle
    /\ ChanIdle
    /\ MonoIdle
    /\ RunIdle

SpecNames == InitNames /\ [][NextInfer]_vars

----------------------------------------------------------------------------
(* SpecScope: resolve() on `fn f(a) { assignments }  fn main() { calls of  *)
(* f with literals }`, with the symbol table.  The source interval of the  *)
(* k-th expression of statement i of the declaration d is <<d, i, k>>:     *)
(* k = 0 the assignment target or the call, k = 1 the right-hand side or   *)
(* the callee, k = 2 the argument; <<d, 0, 0>> is d's parameter.           *)

MaxScopeStmts == 3

Str_a == <<97>>

ScopeAssign(target, rhs) == [k |-> "assign", target |-> target, rhs |-> rhs]

\* the right-hand side is the parameter a, the variable x, or a literal
ScopeRhs == {"PARAM", "X", "INTEGER"}

ScopeFStmts == {ScopeAssign(t, r) : t \in {Str_x, Str_y}, r \in ScopeRhs}

ScopeMainStmts == {Stmt("call", Str_f, <<t>>) : t \in Lits}

ScopePrograms ==
    {(Str_main :> [np |-> 0, param |-> None, body |-> mb])
       @@ (Str_f :> [np |-> 1, param |-> Str_a, body |-> fb]) :
        mb \in UNION {[1..n -> ScopeMainStmts] : n \in 1..2},
        fb \in UNION {[1..n -> ScopeFStmts] : n \in 1..MaxScopeStmts}}

\* visitPrimaryExpression for an identifier: a temporary of the symbol's
\* type, or of UNKNOWN when the name is not defined
scope_visitIdentifier(sy, name, interval) ==
    LET symbol == lookup_by_id(sy, name)
        t      == IF symbol # 0 THEN sy.symbols[symbol].resolved_type ELSE "UNKNOWN"
    IN  [symtab |-> define_temp(sy, t, interval, "TEMPORARY"), type |-> t]

\* self.visit(ctx.expression()) for the right-hand side of an assignment
scope_visitRhs(sy, func, rhs, interval) ==
    IF rhs = "PARAM" THEN scope_visitIdentifier(sy, prog[func.ctx].param, interval)
    ELSE IF rhs = "X" THEN scope_visitIdentifier(sy, Str_x, interval)
    ELSE [symtab |-> define_temp(sy, rhs, interval, "LITERAL"), type |-> rhs]

\* SymbolTableVisitor.visitVariableAssignment, with the symbol table
scope_visitVariableAssignment(st, func, i, stmt) ==
    LET r         == scope_visitRhs(st.symtab, func, stmt.rhs, <<func.ctx, i, 1>>)
        sy        == r.symtab
        expr_type == r.type
        existing  == lookup_by_id(sy, stmt.target)
        target    == <<func.ctx, i, 0>>
    IN  [st EXCEPT !.symtab =
            IF existing = 0
            THEN define(sy, stmt.target, "VARIABLE", expr_type, target, FALSE)
            ELSE IF sy.symbols[existing].resolved_type # expr_type
            THEN define(sy, stmt.target, "VARIABLE", expr_type, target, TRUE)
            ELSE define_temp([sy EXCEPT !.symbols[existing].is_mutated = TRUE],
                             expr_type, target, "TEMPORARY")]

\* the type visitFunctionCallExpr gives the call expression at `site`: the
\* return type of the specialization when it is known and not VOID, else
\* the type of the callee's symbol
call_type(at, site, callee_type) ==
    IF /\ site \in DOMAIN at.sm
       /\ at.functions[at.sm[site]].return_type # "VOID"
    THEN at.functions[at.sm[site]].return_type
    ELSE callee_type

\* the end of visitFunctionCallExpr: the Atlas and specialization_map as the
\* request left them, and a temporary for the call expression
call_temp(at, sy, site, callee_type, interval) ==
    [functions |-> at.functions, calls |-> at.calls, sm |-> at.sm,
     symtab |-> define_temp(sy, call_type(at, site, callee_type), interval, "TEMPORARY")]

\* the visit of the callee and of the literal argument
call_operands(sy, func, i, stmt) ==
    [symtab |-> define_temp(scope_visitIdentifier(sy, stmt.callee, <<func.ctx, i, 1>>).symtab,
                            stmt.args[1], <<func.ctx, i, 2>>, "LITERAL"),
     type   |-> scope_visitIdentifier(sy, stmt.callee, <<func.ctx, i, 1>>).type]

\* SymbolTableVisitor.visitFunctionCallExpr, with the symbol table: the
\* callee and the argument are visited, the specialization is requested and
\* the call expression gets a temporary
scope_visitFunctionCallExpr(st, func, i, stmt) ==
    call_temp(visitFunctionCallExpr([functions |-> st.functions, calls |-> st.calls,
                                     sm |-> st.sm], func, i, stmt),
              call_operands(st.symtab, func, i, stmt).symtab,
              Site(func, i),
              call_operands(st.symtab, func, i, stmt).type,
              <<func.ctx, i, 0>>)

\* self.visit(stmt) for statement i of func's body
scope_visitStatement(st, func, i) ==
    LET stmt == prog[func.ctx].body[i]
    IN  IF stmt.k = "assign"
        THEN scope_visitVariableAssignment(st, func, i, stmt)
        ELSE scope_visitFunctionCallExpr(st, func, i, stmt)

\* visitBlock: the statements of func's body from index i on; each
\* statement starts from the state the one before it left
RECURSIVE scope_visitBlock(_, _, _)
scope_visitBlock(st, func, i) ==
    IF i > Len(prog[func.ctx].body) THEN st
    ELSE CHOOSE r \in {scope_visitBlock(s, func, i + 1) :
                          s \in {scope_visitStatement(st, func, i)}} : TRUE

\* SymbolTableVisitor._resolve_function for the instance keyed m
scope_resolve_function(st, m) ==
    LET func == st.functions[m]
        decl == prog[func.ctx]
        sy1  == enter_scope(st.symtab, func.mangled_name)
        sy2  == IF decl.np = 1
                THEN define(sy1, decl.param, "PARAMETER",
                            IF 1 <= Len(func.arg_types) THEN func.arg_types[1] ELSE "UNKNOWN",
                            <<func.ctx, 0, 0>>, FALSE)
                ELSE sy1
        st3  == scope_visitBlock([st EXCEPT !.symtab = sy2], func, 1)
    IN  [st3 EXCEPT !.functions[m].return_type = "VOID",
                    !.symtab = exit_scope(st3.symtab)]

ScopeState ==
    [functions |-> functions, calls |-> calls, sm |-> specialization_map,
     symtab |-> symtab]

\* AtlasBuilder.build() has returned and SymbolTableVisitor was constructed
InitScope ==
    /\ prog \in ScopePrograms
    /\ pc = "start"
    /\ functions = (Str_main :> MainInstance)
    /\ calls = (Str_main :> {Str_f}) @@ (Str_f :> {})
    /\ processed = {}
    /\ queue = <<>>
    /\ specialization_map = <<>>
    /\ emitted = <<>>
    /\ uses_async = FALSE
    /\ imports = <<>>
    /\ abody = <<>>
    /\ apc = [phase |-> "idle", pass |-> 0, i |-> 0]
    /\ symtab = NewSymbolTable
    /\ declared_vars = {}
    /\ rust = <<>>
    /\ HistIdle
    /\ ChanIdle
    /\ InferIdle
    /\ MonoIdle
    /\ RunIdle

ScopeFrame == InferFrame /\ UNCHANGED inferVars

\* resolve() up to its first loop: _register_builtins, the first snapshot
ScopeBegin ==
    /\ pc = "start"
    /\ symtab' = _register_builtins(symtab)
    /\ queue' = SortedSeq(DOMAIN functions)
    /\ pc' = "discover"
    /\ UNCHANGED <<functions, calls, processed, specialization_map>>
    /\ ScopeFrame

ScopeApply(st) ==
    /\ functions' = st.functions
    /\ calls' = st.calls
    /\ specialization_map' = st.sm
    /\ symtab' = st.symtab

\* resolve(), phase 1: one iteration of the for-loop over current_functions
ScopeDiscover ==
    /\ pc = "discover"
    /\ queue # <<>>
    /\ LET st   == scope_resolve_function(ScopeState, Head(queue))
           proc == processed \cup {Head(queue)}
           next == IF Tail(queue) # <<>> THEN Tail(queue)
                   ELSE SortedSeq(DOMAIN st.functions \ proc)
       IN  /\ ScopeApply(st)
           /\ processed' = proc
           /\ IF next = <<>>
              THEN pc' = "reresolve" /\ queue' = topological_order(st.functions, st.calls)
              ELSE pc' = pc /\ queue' = next
    /\ ScopeFrame

\* resolve(), phase 2: one iteration of the loop over `order`
ScopeReresolve ==
    /\ pc = "reresolve"
    /\ queue # <<>>
    /\ ScopeApply(scope_resolve_function(ScopeState, Head(queue)))
    /\ queue' = Tail(queue)
    /\ pc' = IF Tail(queue) = <<>> THEN "resolved" ELSE pc
    /\ UNCHANGED processed
    /\ ScopeFrame

NextScope ==
    \/ ScopeBegin
    \/ ScopeDiscover
    \/ ScopeReresolve

SpecScope == InitScope /\ [][NextScope]_vars

----------------------------------------------------------------------------
(* SpecMono: the Visitor pipeline (visit, finalize, monomorphize) on a     *)
(* program `fn p(ch) { sends on ch }  fn main() { channel statements }`.   *)
(* main creates channels with or without a capacity, sends literals on     *)
(* them and spawns p on them; monomorphize specializes p for the channel   *)
(* argument, flows the element type back to the channel variables and      *)
(* marks the sends of the specialized body as bounded or not.              *)

MaxMonoStmts == 4
MaxTemplateSends == 2

MonoTypes == {"INTEGER", "STRING"}

MStmt(op, v, b, t) == [op |-> op, v |-> v, b |-> b, t |-> t]

MonoMainStmts ==
    {MStmt("decl", v, b, "None") : v \in ChanNames, b \in BOOLEAN}
    \cup {MStmt("send", v, FALSE, t) : v \in ChanNames, t \in MonoTypes}
    \cup {MStmt("spawn", v, FALSE, "None") : v \in ChanNames}

MonoPrograms ==
    {[main |-> m, p |-> s] :
        m \in {q \in UNION {[1..n -> MonoMainStmts] : n \in 1..MaxMonoStmts} :
                  DeclaredBeforeUse(q)},
        s \in UNION {[1..n -> MonoTypes] : n \in 0..MaxTemplateSends}}

\* ChannelSendStatement(channel_name, value); is_bounded defaults to False
ChannelSendStatement(channel_name, t) ==
    [kind |-> "ChannelSendStatement", channel_name |-> channel_name,
     value_type |-> t, is_bounded |-> FALSE]

\* ChannelSendStatement.render: `.send(v).await.unwrap()` when is_bounded,
\* `.send(v).unwrap()` otherwise
render_send(stmt) == IF stmt.is_bounded THEN "send_await" ELSE "send"

\* CallSite(func_name, arg_types, call_expr); the argument is an identifier
CallSite(func_name, arg_types, arguments) ==
    [func_name |-> func_name, arg_types |-> arg_types, arguments |-> arguments]

\* the guarded inference of a send site: the element type is set only
\* while it is UNKNOWN
infer_on_send(cv, v, t) ==
    IF v \in DOMAIN cv /\ cv[v].element_type = "UNKNOWN"
    THEN [cv EXCEPT ![v].element_type = t]
    ELSE cv

\* reverse_map.get(arg.name, arg.name)
reverse_map(name_map, name) ==
    LET origs == {o \in DOMAIN name_map : name = name_map[o][1] \/ name = name_map[o][2]}
    IN  IF origs = {} THEN name ELSE CHOOSE o \in origs : TRUE

\* Visitor._analyze_channel_params: the last send on a parameter decides
RECURSIVE _analyze_channel_params(_, _, _)
_analyze_channel_params(stmts, param_names, roles) ==
    IF stmts = <<>> THEN roles
    ELSE LET s == Head(stmts) IN
         _analyze_channel_params(Tail(stmts), param_names,
            IF s.kind = "ChannelSendStatement" /\ s.channel_name \in param_names
            THEN Put(roles, s.channel_name, <<"sender", None, s.value_type>>)
            ELSE roles)

\* Visitor._get_channel_element_type: the first argument that names a
\* channel variable
RECURSIVE _get_channel_element_type(_, _)
_get_channel_element_type(cv, call_sites) ==
    IF call_sites = <<>> THEN "UNKNOWN"
    ELSE LET arg == Head(call_sites).arguments[1] IN
         IF arg \in DOMAIN cv THEN cv[arg].element_type
         ELSE _get_channel_element_type(cv, Tail(call_sites))

\* Visitor._update_channel_element_types
RECURSIVE _update_channel_element_types(_, _, _, _, _)
_update_channel_element_types(cv, name_map, call_sites, param_idx, elem_type) ==
    IF elem_type = "UNKNOWN" \/ call_sites = <<>> THEN cv
    ELSE LET site == Head(call_sites)
             orig == reverse_map(name_map, site.arguments[param_idx])
         IN  _update_channel_element_types(
                 IF param_idx <= Len(site.arguments) /\ orig \in DOMAIN cv
                 THEN [cv EXCEPT ![orig].element_type = elem_type]
                 ELSE cv,
                 name_map, Tail(call_sites), param_idx, elem_type)

\* Visitor._get_channel_is_bounded: the first call site decides
RECURSIVE _get_channel_is_bounded(_, _, _, _)
_get_channel_is_bounded(cv, name_map, call_sites, param_idx) ==
    IF call_sites = <<>> THEN FALSE
    ELSE LET site == Head(call_sites)
             orig == reverse_map(name_map, site.arguments[param_idx])
         IN  IF param_idx <= Len(site.arguments) /\ orig \in DOMAIN cv
             THEN cv[orig].is_bounded
             ELSE _get_channel_is_bounded(cv, name_map, Tail(call_sites), param_idx)

\* Visitor._update_send_statements_bounded
_update_send_statements_bounded(stmts, param_is_bounded) ==
    [i \in DOMAIN stmts |->
        IF stmts[i].kind = "ChannelSendStatement"
        THEN [stmts[i] EXCEPT !.is_bounded =
                 IF stmts[i].channel_name \in DOMAIN param_is_bounded
                 THEN param_is_bounded[stmts[i].channel_name] ELSE FALSE]
        ELSE stmts[i]]

\* Visitor.monomorphize for the one signature (p, (CHANNEL,)) the call
\* sites of these programs have
monomorphize(cv, name_map, templates, call_sites) ==
    IF call_sites = <<>> \/ Str_p \notin DOMAIN templates
    THEN [channel_vars |-> cv, monomorphized |-> <<>>]
    ELSE
    LET template  == templates[Str_p]
        roles     == _analyze_channel_params(template.body, Range(template.parameters), <<>>)
        param     == template.parameters[1]
        role_info == IF param \in DOMAIN roles THEN roles[param]
                     ELSE <<"sender", None, "UNKNOWN">>
        elem_type == IF role_info[3] # "UNKNOWN" THEN role_info[3]
                     ELSE _get_channel_element_type(cv, call_sites)
        cv2       == _update_channel_element_types(cv, name_map, call_sites, 1, elem_type)
        bounded   == _get_channel_is_bounded(cv2, name_map, call_sites, 1)
        mono_func == [name |-> Str_p,
                      mangled_name |-> _mangle_name(Str_p, <<"CHANNEL">>),
                      element_type |-> elem_type,
                      is_bounded |-> bounded,
                      is_async |-> TRUE,
                      body |-> _update_send_statements_bounded(template.body,
                                                               (param :> bounded))]
    IN  [channel_vars |-> cv2, monomorphized |-> <<mono_func>>]

InitMono ==
    /\ mprog \in MonoPrograms
    /\ mpc = [phase |-> "template", i |-> 0]
    /\ _channel_vars = <<>>
    /\ _call_sites = <<>>
    /\ _function_templates = <<>>
    /\ main_body = <<>>
    /\ _monomorphized = <<>>
    /\ _pending_assignments = <<>>
    /\ _array_push_vars = {}
    /\ statements = <<>>
    /\ functions = (Str_main :> MainInstance)
    /\ calls = (Str_main :> {})
    /\ HistIdle
    /\ PipeIdle
    /\ AssignIdle
    /\ ChanIdle
    /\ InferIdle
    /\ RunIdle

MonoFrame ==
    UNCHANGED <<atlasVars, histVars, pipeVars, assignVars, inferVars, runVars, mprog,
                _pending_assignments, _array_push_vars, statements,
                cpipe, cprog, cpc, _channel_usages, _pending_channel_decls,
                _channel_infos, channel_decls, send_sites, recv_sites>>

MonoStmt == mprog.main[mpc.i]

AtMono(op) ==
    /\ mpc.phase = "main"
    /\ mpc.i <= Len(mprog.main)
    /\ MonoStmt.op = op

\* Visitor.visitFunctionDeclaration of p: its body is visited and, having an
\* untyped parameter, it is stored as a template
Mono_visitFunctionDeclaration ==
    /\ mpc.phase = "template"
    /\ _function_templates' =
           Put(_function_templates, Str_p,
               [parameters |-> <<Str_ch>>,
                body |-> [i \in DOMAIN mprog.p |-> ChannelSendStatement(Str_ch, mprog.p[i])]])
    /\ mpc' = [phase |-> "main", i |-> 1]
    /\ UNCHANGED <<_channel_vars, _channel_name_map, _call_sites, main_body, _monomorphized>>
    /\ MonoFrame

\* Visitor._visit_statement, channel creation in a block
Mono_visit_statement_chan ==
    /\ AtMono("decl")
    /\ _channel_vars' = Put(_channel_vars, MonoStmt.v,
                            [element_type |-> "UNKNOWN", is_bounded |-> MonoStmt.b])
    /\ _channel_name_map' = Put(_channel_name_map, MonoStmt.v,
                                <<MonoStmt.v \o Suffix_tx, MonoStmt.v \o Suffix_rx>>)
    /\ main_body' = Append(main_body, [kind |-> "ChannelDeclaration", base_name |-> MonoStmt.v,
                             is_bounded |-> MonoStmt.b])
    /\ mpc' = [mpc EXCEPT !.i = @ + 1]
    /\ UNCHANGED <<_call_sites, _function_templates, _monomorphized>>
    /\ MonoFrame

\* Visitor._visit_statement, channel send
Mono_visit_statement_send ==
    /\ AtMono("send")
    /\ _channel_vars' = infer_on_send(_channel_vars, MonoStmt.v, MonoStmt.t)
    /\ main_body' = Append(main_body, ChannelSendStatement(MonoStmt.v, MonoStmt.t))
    /\ mpc' = [mpc EXCEPT !.i = @ + 1]
    /\ UNCHANGED <<_channel_name_map, _call_sites, _function_templates, _monomorphized>>
    /\ MonoFrame

\* Visitor._visit_statement, spawn: the channel argument is rewritten to the
\* sender name and the call site is recorded
Mono_visit_statement_spawn ==
    /\ AtMono("spawn")
    /\ LET arg == IF MonoStmt.v \in DOMAIN _channel_name_map
                  THEN _channel_name_map[MonoStmt.v][1] ELSE MonoStmt.v
       IN  /\ _call_sites' = Append(_call_sites, CallSite(Str_p, <<"CHANNEL">>, <<arg>>))
           /\ main_body' = Append(main_body, [kind |-> "SpawnStatement", arguments |-> <<arg>>])
    /\ mpc' = [mpc EXCEPT !.i = @ + 1]
    /\ UNCHANGED <<_channel_vars, _channel_name_map, _function_templates, _monomorphized>>
    /\ MonoFrame

\* Visitor.finalize: the program has no top-level statements to place
Mono_finalize ==
    /\ mpc.phase = "main"
    /\ mpc.i > Len(mprog.main)
    /\ mpc' = [phase |-> "monomorphize", i |-> 0]
    /\ UNCHANGED <<_channel_vars, _channel_name_map, _call_sites, _function_templates,
                   main_body, _monomorphized>>
    /\ MonoFrame

\* Visitor.monomorphize
Mono_monomorphize ==
    /\ mpc.phase = "monomorphize"
    /\ LET r == monomorphize(_channel_vars, _channel_name_map, _function_templates, _call_sites)
       IN  /\ _channel_vars' = r.channel_vars
           /\ _monomorphized' = r.monomorphized
    /\ mpc' = [phase |-> "done", i |-> 0]
    /\ UNCHANGED <<_channel_name_map, _call_sites, _function_templates, main_body>>
    /\ MonoFrame

NextMono ==
    \/ Mono_visitFunctionDeclaration
    \/ Mono_visit_statement_chan
    \/ Mono_visit_statement_send
    \/ Mono_visit_statement_spawn
    \/ Mono_finalize
    \/ Mono_monomorphize

SpecMono == InitMono /\ [][NextMono]_vars

----------------------------------------------------------------------------
(* SpecMut: the Visitor pipeline on top-level statements over the          *)
(* variables a and x: assignments of an array literal or a string literal  *)
(* and calls n.push(1), a push only where the name is bound to an array.   *)
(* The statement index of a statement is its position in the program.      *)

MaxMutStmts == 4

MutNames == {Str_a, Str_x}

MutAssign(n, t) == [op |-> "assign", n |-> n, t |-> t]
MutPush(n)      == [op |-> "push", n |-> n, t |-> "INTEGER"]

MutStmts ==
    {MutAssign(n, t) : n \in MutNames, t \in {"ARRAY", "STRING"}}
        \cup {MutPush(n) : n \in MutNames}

\* the assignments of n before statement j
AssignsBefore(b, n, j) == {k \in 1..(j - 1) : b[k].op = "assign" /\ b[k].n = n}

Latest(S) == CHOOSE k \in S : \A l \in S : l <= k

\* every push is on a name whose latest assignment is an array literal
PushOnArrays(b) ==
    \A j \in DOMAIN b :
        b[j].op = "push" =>
            /\ AssignsBefore(b, b[j].n, j) # {}
            /\ b[Latest(AssignsBefore(b, b[j].n, j))].t = "ARRAY"

MutPrograms ==
    {b \in UNION {[1..n -> MutStmts] : n \in 1..MaxMutStmts} : PushOnArrays(b)}

RawAssignment(var_name, value_type, stmt_index) ==
    [var_name |-> var_name, value_type |-> value_type, stmt_index |-> stmt_index]

\* finalize(), first pass: the kind of each pending assignment from index i
\* on; var_state maps a name to <<current type, declaration index>>
RECURSIVE assignment_kinds(_, _, _)
assignment_kinds(pending, i, var_state) ==
    IF i > Len(pending) THEN <<>>
    ELSE IF pending[i].var_name \notin DOMAIN var_state
    THEN <<"DECLARATION">> \o
         assignment_kinds(pending, i + 1,
             Put(var_state, pending[i].var_name,
                 <<pending[i].value_type, pending[i].stmt_index>>))
    ELSE IF pending[i].value_type = var_state[pending[i].var_name][1]
    THEN <<"REASSIGNMENT">> \o assignment_kinds(pending, i + 1, var_state)
    ELSE <<"SHADOW">> \o
         assignment_kinds(pending, i + 1,
             Put(var_state, pending[i].var_name,
                 <<pending[i].value_type, pending[i].stmt_index>>))

\* finalize(), second pass: [var_state, needs_mut] after the loop over
\* assignment_info from index i on
RECURSIVE reassigned_declarations(_, _, _, _)
reassigned_declarations(pending, kinds, i, r) ==
    IF i > Len(pending) THEN r
    ELSE IF kinds[i] \in {"DECLARATION", "SHADOW"}
    THEN reassigned_declarations(pending, kinds, i + 1,
             [r EXCEPT !.var_state =
                  Put(@, pending[i].var_name,
                      <<pending[i].value_type, pending[i].stmt_index>>)])
    ELSE IF pending[i].var_name \in DOMAIN r.var_state
    THEN reassigned_declarations(pending, kinds, i + 1,
             [r EXCEPT !.needs_mut = @ \cup {r.var_state[pending[i].var_name][2]}])
    ELSE reassigned_declarations(pending, kinds, i + 1, r)

\* finalize(): the loop over _array_push_vars after the second pass
pushed_declarations(r, push_vars) ==
    r.needs_mut \cup {r.var_state[n][2] : n \in push_vars \cap DOMAIN r.var_state}

\* finalize(): the set needs_mut
needs_mut(pending, push_vars) ==
    pushed_declarations(
        reassigned_declarations(pending, assignment_kinds(pending, 1, <<>>), 1,
                                [var_state |-> <<>>, needs_mut |-> {}]),
        push_vars)

VariableAssignment(variable_name, kind, mut) ==
    [variable_name |-> variable_name, kind |-> kind, needs_mut |-> mut]

\* finalize(): the final statements by statement index
assignment_statements(pending, push_vars) ==
    [idx \in {pending[i].stmt_index : i \in DOMAIN pending} |->
        LET i == CHOOSE j \in DOMAIN pending : pending[j].stmt_index = idx
        IN  VariableAssignment(pending[i].var_name,
                               assignment_kinds(pending, 1, <<>>)[i],
                               idx \in needs_mut(pending, push_vars))]

\* Visitor() was constructed
InitMut ==
    /\ mprog \in MutPrograms
    /\ mpc = [phase |-> "visit", i |-> 1]
    /\ _channel_vars = <<>>
    /\ _call_sites = <<>>
    /\ _function_templates = <<>>
    /\ main_body = <<>>
    /\ _monomorphized = <<>>
    /\ _pending_assignments = <<>>
    /\ _array_push_vars = {}
    /\ statements = <<>>
    /\ functions = <<>>
    /\ calls = <<>>
    /\ HistIdle
    /\ PipeIdle
    /\ AssignIdle
    /\ ChanIdle
    /\ InferIdle
    /\ RunIdle

MutFrame ==
    UNCHANGED <<atlasVars, histVars, pipeVars, assignVars, chanVars, inferVars, runVars,
                mprog, _channel_vars, _call_sites, _function_templates, main_body,
                _monomorphized>>

\* Visitor.visitVariableAssignment: pass 1 collects the raw assignment
Mut_visitVariableAssignment ==
    /\ mpc.phase = "visit"
    /\ mpc.i <= Len(mprog)
    /\ mprog[mpc.i].op = "assign"
    /\ _pending_assignments' =
           Append(_pending_assignments,
                  RawAssignment(mprog[mpc.i].n, mprog[mpc.i].t, mpc.i))
    /\ mpc' = [mpc EXCEPT !.i = @ + 1]
    /\ UNCHANGED <<_array_push_vars, statements>>
    /\ MutFrame

\* Visitor.visitFunctionCallExpr on n.push(1)
Mut_visitFunctionCallExpr ==
    /\ mpc.phase = "visit"
    /\ mpc.i <= Len(mprog)
    /\ mprog[mpc.i].op = "push"
    /\ _array_push_vars' = _array_push_vars \cup {mprog[mpc.i].n}
    /\ mpc' = [mpc EXCEPT !.i = @ + 1]
    /\ UNCHANGED <<_pending_assignments, statements>>
    /\ MutFrame

\* Visitor.finalize
Mut_finalize ==
    /\ mpc.phase = "visit"
    /\ mpc.i > Len(mprog)
    /\ statements' = assignment_statements(_pending_assignments, _array_push_vars)
    /\ mpc' = [phase |-> "done", i |-> 0]
    /\ UNCHANGED <<_pending_assignments, _array_push_vars>>
    /\ MutFrame

NextMut ==
    \/ Mut_visitVariableAssignment
    \/ Mut_visitFunctionCallExpr
    \/ Mut_finalize

SpecMut == InitMut /\ [][NextMut]_vars

----------------------------------------------------------------------------
(* SpecReturn: resolve() on programs with return statements and calls in   *)
(* argument position.  main() calls f and g with a literal or with the     *)
(* result of another call, e.g. f(g(1)); f(a) and g(a) return their        *)
(* parameter, a literal, print(a) or the result of a call, and may call    *)
(* themselves or each other with another argument type.  The source        *)
(* interval of the call of statement i of declaration d is <<d, i, 0>>,    *)
(* that of the call in its argument <<d, i, 1>>.                           *)

MaxReturnStmts == 2

\* an expression: a literal of type t, the parameter, print(a),
\* callee(t) and callee(inner(t)), where t is a literal type or "PARAM"
Lit      == [e : {"lit"}, t : Lits, callee : {None}, inner : {None}]
ParamRef == [e |-> "param", t |-> "PARAM", callee |-> None, inner |-> None]
PrintOf  == [e |-> "print", t |-> "PARAM", callee |-> Str_print, inner |-> None]
CallOf(callee, t) == [e |-> "call", t |-> t, callee |-> callee, inner |-> None]
NestedCall(callee, inner, t) == [e |-> "nested", t |-> t, callee |-> callee, inner |-> inner]

ExprStmt(x)   == [k |-> "expr", x |-> x]
ReturnStmt(x) == [k |-> "return", x |-> x]

ReturnMainStmts ==
    {ExprStmt(CallOf(c, t)) : c \in {Str_f, Str_g}, t \in Lits}
        \cup {ExprStmt(NestedCall(Str_f, Str_g, "INTEGER"))}

ReturnFStmts ==
    {ReturnStmt(ParamRef), ReturnStmt(PrintOf), ReturnStmt(CallOf(Str_g, "PARAM")),
     ExprStmt(CallOf(Str_f, "FLOAT"))}
        \cup {ReturnStmt(x) : x \in Lit}

ReturnGStmts ==
    {ReturnStmt(ParamRef), ExprStmt(CallOf(Str_f, "PARAM")),
     ReturnStmt(CallOf(Str_f, "FLOAT"))}

ReturnPrograms ==
    {(Str_main :> [np |-> 0, body |-> mb]) @@ (Str_f :> [np |-> 1, body |-> fb])
       @@ (Str_g :> [np |-> 1, body |-> gb]) :
        mb \in UNION {[1..n -> ReturnMainStmts] : n \in 1..MaxReturnStmts},
        fb \in BodiesUpTo(ReturnFStmts, MaxReturnStmts),
        gb \in BodiesUpTo(ReturnGStmts, 1)}

\* _walk_for_references on these bodies: the names called, built-ins skipped
ReturnRefs(p, name) ==
    ({p[name].body[i].x.callee : i \in DOMAIN p[name].body}
        \cup {p[name].body[i].x.inner : i \in DOMAIN p[name].body}) \ (Builtins \cup {None})

\* build(): the visited set of the worklist
RECURSIVE ReturnWorklist(_, _, _)
ReturnWorklist(p, seen, todo) ==
    IF todo = {} THEN seen
    ELSE LET n    == CHOOSE x \in todo : TRUE
             more == {c \in ReturnRefs(p, n) : c \in DOMAIN p /\ c \notin seen}
         IN  ReturnWorklist(p, seen \cup more, (todo \ {n}) \cup more)

\* the end of visitFunctionCallExpr for a call of a declared function with
\* one argument of a known type: the specialization is requested and the
\* call has the instance's return type unless that is VOID; the callee's
\* name is no symbol, so the type is UNKNOWN otherwise
ret_specialize(st, at, site) ==
    [st EXCEPT !.functions = at.functions,
               !.calls = at.calls,
               !.sm = (site :> at.ret) @@ st.sm,
               !.type = IF at.functions[at.ret].return_type # "VOID"
                        THEN at.functions[at.ret].return_type
                        ELSE "UNKNOWN"]

\* SymbolTableVisitor.visitFunctionCallExpr for callee(arg) where the
\* argument was visited and has type arg_type
ret_visitFunctionCallExpr(st, func, site, callee, arg_type) ==
    IF callee \in DOMAIN prog /\ arg_type # "UNKNOWN"
    THEN CHOOSE r \in {ret_specialize(st, at, site) :
             at \in {add_specialization([functions |-> st.functions, calls |-> st.calls],
                                        callee, <<arg_type>>, callee, func.mangled_name)}} : TRUE
    ELSE [st EXCEPT !.type = "UNKNOWN"]

\* self.visit(expression): st.type is the type the visit returns
ret_visitExpression(st, func, i, x) ==
    CASE x.e = "lit"    -> [st EXCEPT !.type = x.t]
      [] x.e = "param"  -> [st EXCEPT !.type = ArgType(func, "PARAM")]
      [] x.e = "print"  -> [st EXCEPT !.type = "VOID"]
      [] x.e = "call"   ->
            ret_visitFunctionCallExpr(st, func, <<func.ctx, i, 0>>, x.callee,
                                      ArgType(func, x.t))
      [] x.e = "nested" ->
            ret_visitFunctionCallExpr(
                ret_visitFunctionCallExpr(st, func, <<func.ctx, i, 1>>, x.inner,
                                          ArgType(func, x.t)),
                func, <<func.ctx, i, 0>>, x.callee,
                ret_visitFunctionCallExpr(st, func, <<func.ctx, i, 1>>, x.inner,
                                          ArgType(func, x.t)).type)

\* SymbolTableVisitor.visitReturnStatement after the visit of its
\* expression left st: returns lists the types of the return expressions
\* met so far, in traversal order
visitReturnStatement(st) ==
    [st EXCEPT !._current_return_type = IF @ = "VOID" THEN st.type ELSE @,
               !.returns = Append(@, st.type)]

\* self.visit(stmt) for statement i of func's body
ret_visitStatement(st, func, i) ==
    IF prog[func.ctx].body[i].k = "return"
    THEN CHOOSE r \in {visitReturnStatement(s) :
                          s \in {ret_visitExpression(st, func, i, prog[func.ctx].body[i].x)}} : TRUE
    ELSE ret_visitExpression(st, func, i, prog[func.ctx].body[i].x)

\* visitBlock: the statements of func's body from index i on; each
\* statement starts from the state the one before it left
RECURSIVE ret_visitBlock(_, _, _)
ret_visitBlock(st, func, i) ==
    IF i > Len(prog[func.ctx].body) THEN st
    ELSE CHOOSE r \in {ret_visitBlock(s, func, i + 1) :
                          s \in {ret_visitStatement(st, func, i)}} : TRUE

\* the resolver's state when _resolve_function starts on an instance
ReturnState ==
    [functions |-> functions, calls |-> calls, sm |-> specialization_map,
     type |-> "UNKNOWN", _current_return_type |-> "VOID", returns |-> <<>>]

\* SymbolTableVisitor._resolve_function for the instance keyed m
ret_resolve_function(st, m) ==
    CHOOSE r \in {[st1 EXCEPT !.functions[m].return_type = st1._current_return_type] :
                     st1 \in {ret_visitBlock(st, st.functions[m], 1)}} : TRUE

\* AtlasBuilder.build() has returned and resolve() took its first snapshot
InitReturn ==
    /\ prog \in ReturnPrograms
    /\ pc = "discover"
    /\ functions = (Str_main :> MainInstance)
    /\ calls = [n \in ReturnWorklist(prog, {Str_main}, {Str_main}) |-> ReturnRefs(prog, n)]
    /\ processed = {}
    /\ queue = <<Str_main>>
    /\ specialization_map = <<>>
    /\ emitted = <<>>
    /\ uses_async = FALSE
    /\ imports = <<>>
    /\ HistIdle
    /\ AssignIdle
    /\ ChanIdle
    /\ InferIdle
    /\ MonoIdle
    /\ RunIdle

ReturnFrame ==
    UNCHANGED <<prog, emitted, uses_async, imports, histVars, assignVars, chanVars,
                inferVars, monoVars, runVars>>

ReturnApply(st) ==
    /\ functions' = st.functions
    /\ calls' = st.calls
    /\ specialization_map' = st.sm

\* phase 1 without processed.add(mangled_name)
ReturnDiscover_unmarked ==
    /\ pc = "discover"
    /\ queue # <<>>
    /\ \E st \in {ret_resolve_function(ReturnState, Head(queue))} :
          /\ ReturnApply(st)
          /\ processed' = processed
          /\ \E next \in {IF Tail(queue) # <<>> THEN Tail(queue)
                           ELSE SortedSeq(DOMAIN st.functions \ processed)} :
                IF next = <<>>
                THEN pc' = "reresolve" /\ queue' = topological_order(st.functions, st.calls)
                ELSE pc' = pc /\ queue' = next
    /\ ReturnFrame

\* resolve(), phase 1: one iteration of the for-loop over current_functions
ReturnDiscover ==
    /\ pc = "discover"
    /\ queue # <<>>
    /\ \E st \in {ret_resolve_function(ReturnState, Head(queue))} :
          /\ ReturnApply(st)
          /\ processed' = processed \cup {Head(queue)}
          /\ \E next \in {IF Tail(queue) # <<>> THEN Tail(queue)
                           ELSE SortedSeq(DOMAIN st.functions \ (processed \cup {Head(queue)}))} :
                IF next = <<>>
                THEN pc' = "reresolve" /\ queue' = topological_order(st.functions, st.calls)
                ELSE pc' = pc /\ queue' = next
    /\ ReturnFrame

\* resolve(), phase 2: one iteration of the loop over `order`
ReturnReresolve ==
    /\ pc = "reresolve"
    /\ queue # <<>>
    /\ \E st \in {ret_resolve_function(ReturnState, Head(queue))} : ReturnApply(st)
    /\ queue' = Tail(queue)
    /\ pc' = IF Tail(queue) = <<>> THEN "resolved" ELSE pc
    /\ UNCHANGED processed
    /\ ReturnFrame

NextReturn ==
    \/ ReturnDiscover
    \/ ReturnReresolve

SpecReturn == InitReturn /\ [][NextReturn]_vars

\* compile() before the parse: nothing is constructed yet
InitParse ==
    /\ prog = <<>>
    /\ pc = "parse"
    /\ functions = <<>>
    /\ calls = <<>>
    /\ processed = {}
    /\ queue = <<>>
    /\ specialization_map = <<>>
    /\ emitted = <<>>
    /\ uses_async = FALSE
    /\ imports = <<>>
    /\ HistIdle
    /\ AssignIdle
    /\ ChanIdle
    /\ InferIdle
    /\ MonoIdle
    /\ RunIdle

\* the programs whose main is a single call
SingleCallPrograms == {p \in ReturnPrograms : Len(p[Str_main].body) = 1}

\* compile() up to resolve(): the parse, AtlasBuilder.visit and build()
ReturnParse ==
    /\ pc = "parse"
    /\ prog' \in SingleCallPrograms
    /\ pc' = "discover"
    /\ functions' = (Str_main :> MainInstance)
    /\ calls' = [n \in ReturnWorklist(prog', {Str_main}, {Str_main}) |-> ReturnRefs(prog', n)]
    /\ queue' = <<Str_main>>
    /\ UNCHANGED <<processed, specialization_map, emitted, uses_async, imports, histVars,
                   assignVars, chanVars, inferVars, monoVars, runVars>>

NextParsed ==
    \/ ReturnParse
    \/ ReturnDiscover
    \/ ReturnReresolve

\* the steps of compile() and the loops of resolve() run to their end: no
\* step of them waits for anything
SpecReturnLive == InitParse /\ [][NextParsed]_vars /\ WF_vars(NextParsed)

----------------------------------------------------------------------------
(* Properties *)

\* the declarations reachable from main through calls and spawns
ReachableDecls == Worklist(prog, {Str_main}, {Str_main})

Resolved == pc \in {"resolved", "generate", "done"}

(* C1: at a call site inside a declaration that has two or more             *)
(* specializations, the callee name emitted in each specialization's body   *)
(* is the mangling of the callee under that specialization's own argument   *)
(* types.                                                                   *)
C1_CalleePerSpecialization ==
    pc = "done" =>
        \A k \in DOMAIN emitted :
            LET func == functions[emitted[k].mangled_name]
                body == prog[func.ctx].body
            IN  Cardinality({m \in DOMAIN functions : functions[m].ctx = func.ctx}) >= 2
                => \A i \in DOMAIN body :
                       body[i].k = "call" =>
                           emitted[k].callees[i] =
                               _mangle_name(body[i].callee, ArgTypes(func, body[i].args))

(* C4: when resolve() has returned, every call and spawn site whose callee  *)
(* is a declared function and which lies in the body of an instance of the  *)
(* Atlas has an entry in specialization_map naming an instance of the Atlas.*)
C4_EverySiteResolved ==
    Resolved =>
        \A m \in DOMAIN functions :
            \A i \in DOMAIN prog[functions[m].ctx].body :
                prog[functions[m].ctx].body[i].callee \in DOMAIN prog \ Builtins
                => /\ Site(functions[m], i) \in DOMAIN specialization_map
                   /\ specialization_map[Site(functions[m], i)] \in DOMAIN functions

(* C5: when main's body is the single call used() and used's body is empty, *)
(* the pipeline emits exactly two definitions, main and used.               *)
C5_MainAndUsedEmitted ==
    (/\ pc = "done"
     /\ prog[Str_main].body = <<Stmt("call", Str_used, <<>>)>>
     /\ prog[Str_used].body = <<>>)
    => /\ Len(emitted) = 2
       /\ {emitted[k].mangled_name : k \in DOMAIN emitted} = {Str_main, Str_used}

(* C8: when resolve() has returned, an instance is async iff a spawn in a   *)
(* reachable body targets its function with its argument types; a function  *)
(* spawned with any number of arguments, zero included, has an async        *)
(* instance.                                                                *)
C8_AsyncIffSpawned ==
    Resolved =>
        /\ \A t \in ReachableDecls :
               \A i \in DOMAIN prog[t].body :
                   (prog[t].body[i].k = "spawn" /\ "PARAM" \notin Range(prog[t].body[i].args))
                   => LET m == _mangle_name(prog[t].body[i].callee, prog[t].body[i].args)
                      IN  m \in DOMAIN functions /\ functions[m].is_async
        /\ \A m \in DOMAIN functions :
               \A i \in DOMAIN prog[functions[m].ctx].body :
                   prog[functions[m].ctx].body[i].k = "spawn"
                   => LET s == prog[functions[m].ctx].body[i]
                          c == _mangle_name(s.callee, ArgTypes(functions[m], s.args))
                      IN  c \in DOMAIN functions /\ functions[c].is_async
        /\ \A m \in DOMAIN functions :
               functions[m].is_async
               => \E n \in DOMAIN functions :
                      \E i \in DOMAIN prog[functions[n].ctx].body :
                          LET s == prog[functions[n].ctx].body[i]
                          IN  /\ s.k = "spawn"
                              /\ s.callee = functions[m].name
                              /\ ArgTypes(functions[n], s.args) = functions[m].arg_types

(* C9: after generate(), uses_async is true iff a spawn statement occurs in *)
(* the body of main or of a declaration reachable from main.                *)
C9_UsesAsyncIffReachableSpawn ==
    pc = "done" =>
        (uses_async <=> \E t \in ReachableDecls :
                            \E i \in DOMAIN prog[t].body : prog[t].body[i].k = "spawn")

\* a step of VisitStatement that visits an assignment to x while an earlier
\* binding of x is in scope
RebindingStep ==
    /\ apc.phase = "body"
    /\ apc.i <= Len(abody)
    /\ abody[apc.i].k = "assign"
    /\ apc'.i = apc.i + 1
    /\ lookup_by_id(symtab, Str_x) # 0

\* what such a step does when the second binding is a shadow / a reassignment
DefinesShadow ==
    LET existing == lookup_by_id(symtab, Str_x)
        n        == Len(symtab'.symbols)
    IN  /\ symtab'.symbols[n].id = Str_x
        /\ symtab'.symbols[n].is_shadow
        /\ lookup_by_id(symtab', Str_x) = n
        /\ n # existing
        /\ symtab'.symbols[existing] = symtab.symbols[existing]

Reassigns ==
    LET existing == lookup_by_id(symtab, Str_x)
    IN  /\ \A k \in (Len(symtab.symbols) + 1)..Len(symtab'.symbols) :
               symtab'.symbols[k].id = None
        /\ lookup_by_id(symtab', Str_x) = existing
        /\ symtab'.symbols[existing].is_mutated

C7_DeclarationForms ==
    (/\ apc.phase = "done"
     /\ \A i \in DOMAIN abody :
            abody[i].k = "assign" /\ abody[i].t \in {"INTEGER", "STRING"})
    => \A i \in DOMAIN abody :
           rust[i] = IF i = 1 \/ abody[i].t # abody[i - 1].t
                     THEN IF i < Len(abody) /\ abody[i + 1].t = abody[i].t
                          THEN "let mut" ELSE "let"
                     ELSE "assign"

\* the variables a `v = chan()` statement of the program declares
DeclaredChannels == {cprog[i].v : i \in {j \in DOMAIN cprog : cprog[j].op = "decl"}}

(* C10: for every channel variable, no name written at one of its send      *)
(* sites is also written at one of its receive sites.                       *)
C10_SendAndReceiveNamesDistinct ==
    cpc.phase = "done" =>
        \A x \in DeclaredChannels :
            {s.name : s \in {t \in send_sites : t.v = x}}
                \cap {r.name : r \in {t \in recv_sites : t.v = x}} = {}

\* the endpoint names the emitted declarations of x bind
DeclaredSenders(x) ==
    {channel_decls[k].sender_name : k \in {j \in DOMAIN channel_decls : channel_decls[j].base_name = x}}

DeclaredReceivers(x) ==
    {channel_decls[k].receiver_name : k \in {j \in DOMAIN channel_decls : channel_decls[j].base_name = x}}

(* C11: for a channel created by chan() in a function's block and used in   *)
(* that block, the name written at each send site is a sender name bound by *)
(* the emitted declaration of the channel, and the name written at each     *)
(* receive site is a receiver name bound by it.                             *)
C11_SitesUseDeclaredEndpoints ==
    (cpc.phase = "done" /\ \A i \in DOMAIN cprog : cprog[i].lvl = "block")
    => /\ \A s \in send_sites : s.name \in DeclaredSenders(s.v)
       /\ \A r \in recv_sites : r.name \in DeclaredReceivers(r.v)

\* main declares the channel v once, spawns p(v) after that and later binds
\* a variable to a value received from v, and every send in p's body sends
\* a value of type t
CreatesSpawnsReceives(v, t, k) ==
    LET mb == prog[Str_main].body IN
    /\ Cardinality({i \in DOMAIN mb : mb[i].k = "decl" /\ mb[i].v = v}) = 1
    /\ mb[k].k = "recv" /\ mb[k].v = v
    /\ \E j \in 1..(k - 1) : mb[j].k = "spawn" /\ mb[j].v = v
    /\ \A i \in DOMAIN mb : mb[i].k = "send" => mb[i].v # v
    /\ \A i \in DOMAIN prog[Str_p].body : prog[Str_p].body[i].t = t

Str_p_chan == _mangle_name(Str_p, <<"CHANNEL">>)

(* C12: when main creates a channel, spawns p on it and then receives from  *)
(* it, and p sends values of type t on its parameter, then after resolve()  *)
(* the channel's element type is t, the channel info of p's specialization  *)
(* has element type t, and the variable bound to the received value has     *)
(* type t.                                                                  *)
C12_ElementTypeReachesReceiver ==
    pc = "resolved" =>
        \A v \in ChanNames, t \in {"INTEGER", "STRING"}, k \in DOMAIN prog[Str_main].body :
            CreatesSpawnsReceives(v, t, k)
            => /\ chan_objects[chan_of[v]].element_type = t
               /\ chan_objects[functions[Str_p_chan].arg_channel_infos[1]].element_type = t
               /\ LET n == lookup_by_interval(symtab, <<k, 0>>, Str_main)
                  IN  n # 0 /\ symtab.symbols[n].resolved_type = t

(* C15: when a send meets a channel whose element type is fixed to a type   *)
(* other than the type of the value sent, the resolver does not return      *)
(* normally.                                                                *)
C15_ConflictingSendIsAnError ==
    send_conflict => pc # "resolved"


\* the statement the Visitor is about to visit creates channel v anew
CreatesAnew(v) ==
    /\ mpc.phase = "main"
    /\ mpc.i <= Len(mprog.main)
    /\ mprog.main[mpc.i].op = "decl"
    /\ mprog.main[mpc.i].v = v

\* a step leaves the concrete element type of every channel variable that
\* it does not create anew as it was
ElementTypeKept ==
    \A v \in DOMAIN _channel_vars :
        (_channel_vars[v].element_type # "UNKNOWN" /\ ~CreatesAnew(v))
            => /\ v \in DOMAIN _channel_vars'
               /\ _channel_vars'[v].element_type = _channel_vars[v].element_type

(* C13: once the element type recorded for a channel variable is concrete, *)
(* no later send site, parameter binding or call-site back-flow of the     *)
(* same compilation changes it to another type or back to Unknown.         *)
C13_ElementTypeFixedOnce == [][ElementTypeKept]_vars

\* whether the channel that variable v names at statement i of main was
\* created with a capacity argument
CreatedWithCapacity(v, i) ==
    LET decls == {j \in 1..(i - 1) : mprog.main[j].op = "decl" /\ mprog.main[j].v = v}
        last  == CHOOSE j \in decls : \A k \in decls : k <= j
    IN  decls # {} /\ mprog.main[last].b

\* the sends of main and of the specialized p, as rendered
SendInCreator(i) ==
    /\ i \in DOMAIN main_body
    /\ main_body[i].kind = "ChannelSendStatement"

(* C14: a send is emitted as a suspending send if and only if the channel  *)
(* it sends on was created with a capacity argument, both for a send in    *)
(* the function that created the channel and for a send on a parameter     *)
(* that received the channel.                                              *)
C14_SuspendingIffCapacity ==
    mpc.phase = "done" =>
        /\ \A i \in DOMAIN main_body :
               SendInCreator(i) =>
                   ((render_send(main_body[i]) = "send_await")
                        <=> CreatedWithCapacity(mprog.main[i].v, i))
        /\ \A f \in Range(_monomorphized) :
               \A s \in Range(f.body) :
                   \A j \in DOMAIN mprog.main :
                       mprog.main[j].op = "spawn" =>
                           ((render_send(s) = "send_await")
                                <=> CreatedWithCapacity(mprog.main[j].v, j))


\* the functions main reaches through calls and spawns of declared functions
ReachableFromMain == Worklist(prog, {Str_main}, {Str_main})

(* C16: build() fails if and only if no function named main was collected: *)
(* without main it raises and returns no Atlas; with main it returns an    *)
(* Atlas holding main's instance and the call edges of every function main *)
(* reaches, whatever recursion, undefined callees or unused declarations   *)
(* the program has.                                                        *)
C16_BuildFailsIffNoMain ==
    pc # "build" =>
        /\ (pc = "error") <=> (Str_main \notin DOMAIN prog)
        /\ pc = "error" => functions = <<>> /\ calls = <<>>
        /\ pc # "error" =>
              /\ Str_main \in DOMAIN functions
              /\ functions[Str_main] = MainInstance
              /\ ReachableFromMain \subseteq DOMAIN calls

\* build() returned an Atlas for a program with a recursive function, a call
\* of the undeclared h and the declaration g that main never reaches
C16_Witness ==
    /\ pc = "discover"
    /\ processed = {}
    /\ Str_f \in DOMAIN prog /\ Str_f \in BodyRefs(prog, Str_f)
    /\ Str_h \in BodyRefs(prog, Str_main)
    /\ Str_g \in DOMAIN prog /\ Str_g \notin ReachableFromMain
    /\ Str_f \in ReachableFromMain

\* the instances whose original name is main
MainInstances == {m \in DOMAIN functions : functions[m].name = Str_main}

(* C17: after build() and resolve() the Atlas holds exactly one instance   *)
(* whose original name is main: no call or spawn of main with arguments    *)
(* creates a second one.                                                   *)
C17_MainIsSingleton ==
    pc \in {"resolved", "generate", "done"} => MainInstances = {Str_main}


\* the generator visited a spawn statement: one occurs in the body of a
\* function it emitted
SpawnVisited ==
    \E k \in DOMAIN emitted :
        LET body == prog[functions[emitted[k].mangled_name].ctx].body
        IN  \E i \in DOMAIN body : body[i].k = "spawn"

(* C19: the imports list generate() produces contains the asynchronous-    *)
(* runtime import if and only if the generator visited a spawn statement,  *)
(* and it agrees with the final uses_async of the same RustProgram.        *)
C19_ImportsIffSpawn ==
    pc = "done" =>
        /\ ("use tokio;" \in Range(imports)) <=> SpawnVisited
        /\ ("use tokio;" \in Range(imports)) <=> uses_async


Str_f_i64 == _mangle_name(Str_f, <<"INTEGER">>)
Str_f_f64 == _mangle_name(Str_f, <<"FLOAT">>)

\* the type the right-hand side of statement i of f's body has when a has
\* type argt: the parameter's, the literal's, or the one x was last given
RECURSIVE TypeUnder(_, _, _)
TypeUnder(stmts, i, argt) ==
    LET rhs  == stmts[i].rhs
        prev == {j \in 1..(i - 1) : stmts[j].target = Str_x}
    IN  IF rhs = "PARAM" THEN argt
        ELSE IF rhs = "X"
        THEN IF prev = {} THEN "UNKNOWN"
             ELSE TypeUnder(stmts, CHOOSE j \in prev : \A q \in prev : q <= j, argt)
        ELSE rhs

\* the symbol stored for interval under specialization m has type t, and it
\* is not the symbol stored for the interval under specialization o
OwnSymbol(interval, m, o, t) ==
    LET a == lookup_by_interval(symtab, interval, m)
        b == lookup_by_interval(symtab, interval, o)
    IN  /\ a # 0
        /\ a # b
        /\ symtab.symbols[a].resolved_type = t

BothSpecialized == {Str_f_i64, Str_f_f64} \subseteq DOMAIN functions

\* after resolve(), every interval of f's body has its own symbol under each
\* of the two specializations, typed by that specialization's argument
PerSpecializationSymbols ==
    (pc = "resolved" /\ BothSpecialized) =>
        LET stmts == prog[Str_f].body IN
        /\ OwnSymbol(<<Str_f, 0, 0>>, Str_f_i64, Str_f_f64, "INTEGER")
        /\ OwnSymbol(<<Str_f, 0, 0>>, Str_f_f64, Str_f_i64, "FLOAT")
        /\ \A i \in DOMAIN stmts : \A k \in {0, 1} :
               /\ OwnSymbol(<<Str_f, i, k>>, Str_f_i64, Str_f_f64,
                            TypeUnder(stmts, i, "INTEGER"))
               /\ OwnSymbol(<<Str_f, i, k>>, Str_f_f64, Str_f_i64,
                            TypeUnder(stmts, i, "FLOAT"))

\* a step that resolves another function leaves the entries stored for
\* specialization m, and the symbols they name, as they were
EntriesKept(m) ==
    (queue # <<>> /\ Head(queue) # m) =>
        \A key \in DOMAIN symtab.by_interval :
            key[1] = m =>
                /\ key \in DOMAIN symtab'.by_interval
                /\ symtab'.by_interval[key] = symtab.by_interval[key]
                /\ symtab'.symbols[symtab.by_interval[key]]
                       = symtab.symbols[symtab.by_interval[key]]

C29_CallsOverInstances ==
    pc \in {"resolved", "generate", "done"} =>
        \A k \in DOMAIN calls :
            /\ k \in DOMAIN functions
            /\ calls[k] \subseteq DOMAIN functions


\* b can be reached from a along one or more edges of calls between
\* functions that exist, in at most n steps
RECURSIVE ReachesWithin(_, _, _)
ReachesWithin(a, b, n) ==
    /\ n > 0
    /\ a \in DOMAIN calls
    /\ \E c \in calls[a] \cap DOMAIN functions :
          c = b \/ ReachesWithin(c, b, n - 1)

Reaches(a, b) == ReachesWithin(a, b, Cardinality(DOMAIN functions))

PositionIn(order, m) == CHOOSE i \in DOMAIN order : order[i] = m

(* C23: topological_order() returns every key of functions exactly once    *)
(* and no other name; for every edge of calls between two existing         *)
(* functions that lies on no cycle the callee comes before the caller; on  *)
(* a call graph with cycles it still returns.                              *)
C23_TopologicalOrder ==
    LET order == topological_order(functions, calls)
    IN  /\ {order[i] : i \in DOMAIN order} = DOMAIN functions
        /\ Len(order) = Cardinality(DOMAIN functions)
        /\ \A a \in DOMAIN functions \cap DOMAIN calls :
              \A b \in calls[a] \cap DOMAIN functions :
                  ~Reaches(b, a) =>
                      PositionIn(order, b) < PositionIn(order, a)

\* the order is taken of a graph that has a cycle through two functions and
\* an edge on no cycle whose caller sorts before its callee
C23_Witness ==
    /\ pc = "generate"
    /\ \E a, b \in DOMAIN functions : a # b /\ Reaches(a, b) /\ Reaches(b, a)
    /\ \E a \in DOMAIN functions \cap DOMAIN calls :
          \E b \in calls[a] \cap DOMAIN functions :
              ~Reaches(b, a) /\ StrLess(a, b)


\* declaration b can be reached from declaration a along one or more call
\* or spawn references between declared functions, in at most n steps
RECURSIVE DeclReachesWithin(_, _, _)
DeclReachesWithin(a, b, n) ==
    /\ n > 0
    /\ \E c \in BodyRefs(prog, a) \cap DOMAIN prog :
          c = b \/ DeclReachesWithin(c, b, n - 1)

DeclReaches(a, b) == DeclReachesWithin(a, b, Cardinality(DOMAIN prog))

ReachableDeclarations ==
    {Str_main} \cup {n \in DOMAIN prog : DeclReaches(Str_main, n)}

(* C24: after build() the keys of calls are the declared functions that    *)
(* can be reached from main along call and spawn references, whichever     *)
(* worklist entry is taken next; an unreachable declaration gets no entry  *)
(* and a reachable one is walked exactly once, also on a cycle.            *)
C24_CallsKeysAreReachable ==
    Str_main \in DOMAIN prog =>
        \A pick \in Picks :
            LET r == build_walk(prog, <<Str_main>>, {}, <<>>,
                                [n \in DOMAIN prog |-> 0], pick)
            IN  /\ DOMAIN r.calls = ReachableDeclarations
                /\ \A n \in DOMAIN prog :
                      r.walks[n] = IF n \in ReachableDeclarations THEN 1 ELSE 0
                /\ (pc = "discover" /\ processed = {}) => calls = r.calls

\* build() has returned for a program with a cycle of declarations in which
\* main and another function both reference a third one
C24_Witness ==
    /\ pc = "discover"
    /\ processed = {}
    /\ \E a, b \in DOMAIN calls : a # b /\ DeclReaches(a, b) /\ DeclReaches(b, a)
    /\ \E c \in calls[Str_main] :
          \E d \in DOMAIN calls \ {Str_main, c} : c \in calls[d]


(* C21: when resolve() returns, every FunctionInstance in functions, also  *)
(* one first created while the second phase was running, has had its body  *)
(* resolved after its creation.  The first phase resolves exactly the      *)
(* members of processed and the second phase only names that were in       *)
(* functions when the first ended, so the instances resolved at least once *)
(* are the members of processed.                                           *)
C21_EveryInstanceResolved ==
    pc = "resolved" => DOMAIN functions \subseteq processed

(* C26: _resolve_function leaves in return_type the type of the first      *)
(* `return expr` met in traversal order of the body, whatever a later      *)
(* return statement returns, and VOID when the body has none.              *)
FirstReturnStored ==
    (pc \in {"discover", "reresolve"} /\ queue # <<>>) =>
        functions'[Head(queue)].return_type =
            IF ret_resolve_function(ReturnState, Head(queue)).returns = <<>>
            THEN "VOID"
            ELSE ret_resolve_function(ReturnState, Head(queue)).returns[1]

C26_FirstReturnWins == [][FirstReturnStored]_vars


\* a step of the discovery loop resolves a specialization that was not
\* processed before and marks it processed
DiscoverOnce ==
    pc = "discover" =>
        /\ Head(queue) \notin processed
        /\ processed' = processed \cup {Head(queue)}

(* C22: the discovery loop of resolve() reaches its fixpoint and resolve() *)
(* goes on to its end for every program, also with direct and mutual       *)
(* recursion and with recursive calls whose argument type differs from the *)
(* caller's; the loop resolves each specialization once.                   *)
C22_DiscoveryTerminates ==
    /\ <>(pc = "resolved")
    /\ [][DiscoverOnce]_vars

\* resolve() has returned for a program in which f calls itself with an
\* argument type other than its own and f and g call each other
C22_Witness ==
    /\ pc = "resolved"
    /\ {Str_f_i64, Str_f_f64} \subseteq DOMAIN functions
    /\ Str_f_f64 \in calls[Str_f_i64]
    /\ Str_f_f64 \in calls[Str_f_f64]
    /\ \E a \in calls[Str_f_i64] \cap DOMAIN functions :
          functions[a].name = Str_g /\ Str_f_i64 \in calls[a]


\* the statements of main's body that spawn p
SpawnSites == {i \in DOMAIN prog[Str_main].body : prog[Str_main].body[i].k = "spawn"}

(* C27: when resolve() returns, for every spawn site that passes a channel *)
(* variable x to a specialization s, s.arg_channel_infos describes x: it   *)
(* has x's element type and boundedness, also when another spawn site of   *)
(* the same specialization passes another channel.                         *)
C27_ArgChannelInfoPerSite ==
    pc = "resolved" =>
        \A i \in SpawnSites :
            /\ Site(functions[Str_main], i) \in DOMAIN specialization_map
            /\ 1 \in DOMAIN functions[specialization_map[Site(functions[Str_main], i)]].arg_channel_infos
            /\ chan_objects[functions[specialization_map[Site(functions[Str_main], i)]].arg_channel_infos[1]]
                   = chan_objects[chan_of[prog[Str_main].body[i].v]]

\* main creates v and neither sends on it nor passes it to a spawn
UntouchedInMain(v) ==
    /\ \E i \in DOMAIN prog[Str_main].body :
          prog[Str_main].body[i].k = "decl" /\ prog[Str_main].body[i].v = v
    /\ \A i \in DOMAIN prog[Str_main].body :
          prog[Str_main].body[i].v = v => prog[Str_main].body[i].k \in {"decl", "recv"}

(* C30: the channel info kept for a channel variable of main does not      *)
(* depend on a parameter of p with the same source name: a channel main    *)
(* creates, never sends on and never passes on has no element type fixed,  *)
(* whatever p sends on its parameter.                                      *)
C30_InfoPerFunction ==
    pc = "resolved" =>
        \A v \in ChanNames :
            UntouchedInMain(v) =>
                chan_objects[chan_of[v]].element_type = "UNKNOWN"


\* statement j declares its name: the first assignment of the name, or an
\* assignment of another type than the one before it
Declares(j) ==
    /\ mprog[j].op = "assign"
    /\ \/ AssignsBefore(mprog, mprog[j].n, j) = {}
       \/ mprog[Latest(AssignsBefore(mprog, mprog[j].n, j))].t # mprog[j].t

\* the statements under the binding statement d declares: up to the next
\* declaration of the name or the end
UnderBinding(d) ==
    {j \in (d + 1)..Len(mprog) :
        /\ mprog[j].n = mprog[d].n
        /\ \A k \in (d + 1)..j : ~(mprog[k].n = mprog[d].n /\ Declares(k))}

(* C25: a declaration is marked mutable if and only if a same-type         *)
(* reassignment of its name or a push on it lies between it and the next   *)
(* shadowing declaration of the name; a push under an earlier binding      *)
(* marks that binding and not a later one.                                 *)
C25_MutableIffMutatedUnderBinding ==
    mpc.phase = "done" =>
        \A d \in DOMAIN mprog :
            Declares(d) =>
                (statements[d].needs_mut <=> UnderBinding(d) # {})

====
